---- MODULE Spec2Model ----
(***************************************************************************)
(* A model of the three-level memory hierarchy of muanch18/Cache: the L1   *)
(* cache (4-way set-associative, NRU), the L2 cache (direct-mapped), main  *)
(* memory and the memory subsystem controller.                             *)
(*                                                                         *)
(* Geometry.  The source's address is | tag | index | word offset | byte    *)
(* offset | with 3 word-offset bits (8 words per line, 32 bytes), 9 L1 set *)
(* bits and 15 L2 index bits.  The model keeps the layout, the 32-byte     *)
(* line and the 4 ways of an L1 set, and scales the two index widths down  *)
(* to L1SetBits and L2IndexBits; the tag is all address bits above the     *)
(* index, as in the source.  A cache entry's packed state word (v_r_d_tag, *)
(* v_d_tag) is a record of its fields.                                     *)
(***************************************************************************)
EXTENDS Integers, Sequences, FiniteSets, TLC

(***************************************************************************)
(* Bounds of the model.                                                    *)
(***************************************************************************)
\* number of set-index bits of an address (9 in the source)
L1SetBits == 1
\* number of L2 index bits of an address (15 in the source)
L2IndexBits == 2
\* memory sizes are drawn from 0 .. MaxLines cache lines
MaxLines == 10
\* words written are drawn from 1 .. MaxWord
MaxWord == 2
\* operations in one run of the full subsystem
MaxSteps == 3
\* operations in one run of the workload on one L1 set
MaxHotSteps == 7

(***************************************************************************)
(* Program constants.                                                      *)
(***************************************************************************)
BYTES_PER_WORD == 4
READ_ENABLE_MASK == 1
WRITE_ENABLE_MASK == 2
L1_LINES_PER_SET == 4
\* 0x1C
WORD_OFFSET_MASK == 28
WORD_OFFSET_SHIFT == 2
L1_SET_INDEX_SHIFT == 5
L2_INDEX_SHIFT == 5
\* the 0x1f of CACHE_LINE_ADDRESS_MASK and of size_in_bytes & 0x1F
CACHE_LINE_OFFSET_MASK == 31

WORDS_PER_CACHE_LINE == (WORD_OFFSET_MASK \div BYTES_PER_WORD) + 1

Pow2(n) == 2 ^ n

\* x & mask # 0, for a mask of one bit
TestBit(x, mask) == (x \div mask) % 2 = 1

Min(S) == CHOOSE x \in S : \A y \in S : x <= y

LineIndexes == 0 .. (WORDS_PER_CACHE_LINE - 1)

ZeroLine == [i \in LineIndexes |-> 0]

CACHE_LINE_BYTES == CACHE_LINE_OFFSET_MASK + 1

CacheLineAddress(address) == address - (address % CACHE_LINE_BYTES)

(***************************************************************************)
(* Main memory.                                                            *)
(***************************************************************************)
\* a size check that accepts every multiple of a word
MainMemorySizeOkWord(size_in_bytes) == size_in_bytes % BYTES_PER_WORD = 0

\* the check of main_memory_initialize: the size is a multiple of a line
MainMemorySizeOk(size_in_bytes) == size_in_bytes % CACHE_LINE_BYTES = 0

\* the array main_memory_initialize allocates and fills with 0
main_memory_initialize(size_in_bytes) ==
  [i \in 0 .. ((size_in_bytes \div BYTES_PER_WORD) - 1) |-> 0]

\* a bounds check that turns the last word of memory away
MainMemoryInRangeStrict(address, size_in_bytes) ==
  address + BYTES_PER_WORD < size_in_bytes

\* the bounds check of main_memory_access
MainMemoryInRange(address, size_in_bytes) == address < size_in_bytes

\* main_memory_access: [fatal, mem, read_data]; read before write
main_memory_access(mem, size_in_bytes, address, write_data, control, read_data) ==
  IF ~MainMemoryInRange(address, size_in_bytes)
  THEN [fatal |-> TRUE, mem |-> mem, read_data |-> read_data]
  ELSE LET a == CacheLineAddress(address) \div BYTES_PER_WORD
       IN  [fatal |-> FALSE,
            read_data |-> IF TestBit(control, READ_ENABLE_MASK)
                          THEN [i \in LineIndexes |-> mem[a + i]]
                          ELSE read_data,
            mem |-> IF TestBit(control, WRITE_ENABLE_MASK)
                    THEN [w \in DOMAIN mem |->
                            IF w >= a /\ w < a + WORDS_PER_CACHE_LINE
                            THEN write_data[w - a] ELSE mem[w]]
                    ELSE mem]

(***************************************************************************)
(* L2 cache: direct-mapped, write-back.                                    *)
(***************************************************************************)
L2_NUM_CACHE_ENTRIES == Pow2(L2IndexBits)

L2_ADDRESS_TAG_SHIFT == L2_INDEX_SHIFT + L2IndexBits

L2Index(address) == (address \div Pow2(L2_INDEX_SHIFT)) % L2_NUM_CACHE_ENTRIES

L2Tag(address) == address \div Pow2(L2_ADDRESS_TAG_SHIFT)

\* the zero-initialized global array l2_cache
L2ZeroEntry == [v |-> FALSE, d |-> FALSE, tag |-> 0, cache_line |-> ZeroLine]

\* l2_initialize: clears the valid bit of every entry and nothing else
l2_initialize(l2) ==
  [i \in DOMAIN l2 |-> [l2[i] EXCEPT !.v = FALSE]]

\* a hit test that compares the tag and leaves the valid bit out
L2HitTagOnly(l2, address) ==
  l2[L2Index(address)].tag = L2Tag(address)

\* the hit test of l2_cache_access
L2Hit(l2, address) ==
  /\ l2[L2Index(address)].v
  /\ l2[L2Index(address)].tag = L2Tag(address)

\* an l2_cache_access that writes before it tests for the miss
l2_cache_access_write_first(l2, address, write_data, control, read_data) ==
  LET index_bits == L2Index(address)
  IN  [hit |-> L2Hit(l2, address),
       read_data |-> IF L2Hit(l2, address) /\ TestBit(control, READ_ENABLE_MASK)
                     THEN l2[index_bits].cache_line ELSE read_data,
       l2 |-> IF TestBit(control, WRITE_ENABLE_MASK)
              THEN [l2 EXCEPT ![index_bits].cache_line = write_data,
                              ![index_bits].d = TRUE]
              ELSE l2]

\* l2_cache_access: [hit, l2, read_data]
l2_cache_access(l2, address, write_data, control, read_data) ==
  LET index_bits == L2Index(address)
  IN  IF ~L2Hit(l2, address)
      THEN [hit |-> FALSE, l2 |-> l2, read_data |-> read_data]
      ELSE [hit |-> TRUE,
            read_data |-> IF TestBit(control, READ_ENABLE_MASK)
                          THEN l2[index_bits].cache_line ELSE read_data,
            l2 |-> IF TestBit(control, WRITE_ENABLE_MASK)
                   THEN [l2 EXCEPT ![index_bits].cache_line = write_data,
                                   ![index_bits].d = TRUE]
                   ELSE l2]

\* an l2_insert_line that overwrites a dirty entry and reports no write-back
l2_insert_line_no_writeback(l2, address, write_data, evicted_writeback_address, evicted_writeback_data) ==
  [l2 |-> [l2 EXCEPT ![L2Index(address)] =
             [v |-> TRUE, d |-> FALSE, tag |-> L2Tag(address),
              cache_line |-> write_data]],
   status |-> FALSE,
   evicted_writeback_address |-> evicted_writeback_address,
   evicted_writeback_data |-> evicted_writeback_data]

\* an l2_insert_line that writes back every valid entry, dirty or not
l2_insert_line_valid_only(l2, address, write_data, evicted_writeback_address, evicted_writeback_data) ==
  LET evicted_index_bits == L2Index(address)
      evicted_tag_bits == L2Tag(address)
      old == l2[evicted_index_bits]
      new == [v |-> TRUE, d |-> FALSE, tag |-> evicted_tag_bits,
              cache_line |-> write_data]
  IN  IF ~old.v
      THEN [l2 |-> [l2 EXCEPT ![evicted_index_bits] = new],
            status |-> FALSE,
            evicted_writeback_address |-> evicted_writeback_address,
            evicted_writeback_data |-> evicted_writeback_data]
      ELSE [l2 |-> [l2 EXCEPT ![evicted_index_bits] = new],
            status |-> TRUE,
            evicted_writeback_address |->
              old.tag * Pow2(L2_ADDRESS_TAG_SHIFT)
                + evicted_index_bits * Pow2(L2_INDEX_SHIFT),
            evicted_writeback_data |-> old.cache_line]

\* an l2_insert_line that leaves the tag of a valid entry as it was
l2_insert_line_stale_tag(l2, address, write_data, evicted_writeback_address, evicted_writeback_data) ==
  LET evicted_index_bits == L2Index(address)
      evicted_tag_bits == L2Tag(address)
      old == l2[evicted_index_bits]
      new == [v |-> TRUE, d |-> FALSE,
              tag |-> IF old.v THEN old.tag ELSE evicted_tag_bits,
              cache_line |-> write_data]
  IN  IF ~old.d \/ ~old.v
      THEN [l2 |-> [l2 EXCEPT ![evicted_index_bits] = new],
            status |-> FALSE,
            evicted_writeback_address |-> evicted_writeback_address,
            evicted_writeback_data |-> evicted_writeback_data]
      ELSE [l2 |-> [l2 EXCEPT ![evicted_index_bits] = new],
            status |-> TRUE,
            evicted_writeback_address |->
              old.tag * Pow2(L2_ADDRESS_TAG_SHIFT)
                + evicted_index_bits * Pow2(L2_INDEX_SHIFT),
            evicted_writeback_data |-> old.cache_line]

\* l2_insert_line: [l2, status, evicted_writeback_address, evicted_writeback_data];
\* the two evicted_ outputs are assigned only when status is TRUE
l2_insert_line(l2, address, write_data, evicted_writeback_address, evicted_writeback_data) ==
  LET evicted_index_bits == L2Index(address)
      evicted_tag_bits == L2Tag(address)
      old == l2[evicted_index_bits]
      new == [v |-> TRUE, d |-> FALSE, tag |-> evicted_tag_bits,
              cache_line |-> write_data]
  IN  IF ~old.d \/ ~old.v
      THEN [l2 |-> [l2 EXCEPT ![evicted_index_bits] = new],
            status |-> FALSE,
            evicted_writeback_address |-> evicted_writeback_address,
            evicted_writeback_data |-> evicted_writeback_data]
      ELSE [l2 |-> [l2 EXCEPT ![evicted_index_bits] = new],
            status |-> TRUE,
            evicted_writeback_address |->
              old.tag * Pow2(L2_ADDRESS_TAG_SHIFT)
                + evicted_index_bits * Pow2(L2_INDEX_SHIFT),
            evicted_writeback_data |-> old.cache_line]

(***************************************************************************)
(* L1 cache: 4-way set-associative, write-back, NRU replacement.           *)
(***************************************************************************)
L1_NUM_CACHE_SETS == Pow2(L1SetBits)

L1_ADDRESS_TAG_SHIFT == L1_SET_INDEX_SHIFT + L1SetBits

Ways == 0 .. (L1_LINES_PER_SET - 1)

L1SetIndex(address) == (address \div Pow2(L1_SET_INDEX_SHIFT)) % L1_NUM_CACHE_SETS

L1Tag(address) == address \div Pow2(L1_ADDRESS_TAG_SHIFT)

WordOffset(address) ==
  (address % (WORD_OFFSET_MASK + BYTES_PER_WORD)) \div Pow2(WORD_OFFSET_SHIFT)

\* the zero-initialized global array l1_cache
L1ZeroEntry ==
  [v |-> FALSE, r |-> FALSE, d |-> FALSE, tag |-> 0, cache_line |-> ZeroLine]

\* an initialization that clears the reference and dirty bits only
l1_initialize_keep_valid(l1) ==
  [s \in DOMAIN l1 |-> [w \in Ways |->
     [l1[s][w] EXCEPT !.r = FALSE, !.d = FALSE]]]

\* l1_initialize: v_r_d_tag = 0 in every entry, the line data is left alone
l1_initialize(l1) ==
  [s \in DOMAIN l1 |-> [w \in Ways |->
     [l1[s][w] EXCEPT !.v = FALSE, !.r = FALSE, !.d = FALSE, !.tag = 0]]]

\* a scan that stops one way short of the end of the set
L1MatchingWaysShort(l1, address) ==
  {i \in Ways \ {L1_LINES_PER_SET - 1} :
     /\ l1[L1SetIndex(address)][i].v
     /\ l1[L1SetIndex(address)][i].tag = L1Tag(address)}

\* the ways of the set of address that are valid and hold its tag
L1MatchingWays(l1, address) ==
  {i \in Ways : /\ l1[L1SetIndex(address)][i].v
                /\ l1[L1SetIndex(address)][i].tag = L1Tag(address)}

L1Hit(l1, address) == L1MatchingWays(l1, address) # {}

\* an l1_cache_access that sets the reference bit only inside its read and
\* write branches
l1_cache_access_r_in_branches(l1, address, write_data, control, read_data) ==
  LET index_set_bits == L1SetIndex(address)
      word_offset_bits == WordOffset(address)
  IN  IF ~L1Hit(l1, address)
      THEN [hit |-> FALSE, l1 |-> l1, read_data |-> read_data]
      ELSE LET i == Min(L1MatchingWays(l1, address))
               e == l1[index_set_bits][i]
           IN  [hit |-> TRUE,
                read_data |-> IF TestBit(control, READ_ENABLE_MASK)
                              THEN e.cache_line[word_offset_bits]
                              ELSE read_data,
                l1 |-> IF TestBit(control, WRITE_ENABLE_MASK)
                       THEN [l1 EXCEPT
                              ![index_set_bits][i].r = TRUE,
                              ![index_set_bits][i].cache_line[word_offset_bits] =
                                 write_data,
                              ![index_set_bits][i].d = TRUE]
                       ELSE IF TestBit(control, READ_ENABLE_MASK)
                       THEN [l1 EXCEPT ![index_set_bits][i].r = TRUE]
                       ELSE l1]

\* l1_cache_access: [hit, l1, read_data]; the first matching way is the hit
l1_cache_access(l1, address, write_data, control, read_data) ==
  LET index_set_bits == L1SetIndex(address)
      word_offset_bits == WordOffset(address)
  IN  IF ~L1Hit(l1, address)
      THEN [hit |-> FALSE, l1 |-> l1, read_data |-> read_data]
      ELSE LET i == Min(L1MatchingWays(l1, address))
               e == l1[index_set_bits][i]
           IN  [hit |-> TRUE,
                read_data |-> IF TestBit(control, READ_ENABLE_MASK)
                              THEN e.cache_line[word_offset_bits]
                              ELSE read_data,
                l1 |-> IF TestBit(control, WRITE_ENABLE_MASK)
                       THEN [l1 EXCEPT
                              ![index_set_bits][i].r = TRUE,
                              ![index_set_bits][i].cache_line[word_offset_bits] =
                                 write_data,
                              ![index_set_bits][i].d = TRUE]
                       ELSE [l1 EXCEPT ![index_set_bits][i].r = TRUE]]

\* a scan that remembers the last way with the given bits, not the first
LastWayWith(set, r, d) ==
  LET S == {i \in Ways : set[i].r = r /\ set[i].d = d}
  IN  IF S = {} THEN L1_LINES_PER_SET ELSE CHOOSE x \in S : \A y \in S : x >= y

\* a scan that starts at way 1
FirstWayWithFromOne(set, r, d) ==
  LET S == {i \in Ways \ {0} : set[i].r = r /\ set[i].d = d}
  IN  IF S = {} THEN L1_LINES_PER_SET ELSE Min(S)

\* the first way of a set with the given reference and dirty bits, or
\* L1_LINES_PER_SET (the source's ~0x0) when there is none
FirstWayWith(set, r, d) ==
  LET S == {i \in Ways : set[i].r = r /\ set[i].d = d}
  IN  IF S = {} THEN L1_LINES_PER_SET ELSE Min(S)

\* the scan of a full set remembered no way: the final else, curr_entry = 0
L1FallbackTaken(set) ==
  /\ FirstWayWith(set, FALSE, FALSE) = L1_LINES_PER_SET
  /\ FirstWayWith(set, FALSE, TRUE) = L1_LINES_PER_SET
  /\ FirstWayWith(set, TRUE, FALSE) = L1_LINES_PER_SET

\* a choice that looks for a clean way before a way not referenced
L1VictimCleanFirst(set) ==
  LET r0_d0_index == FirstWayWith(set, FALSE, FALSE)
      r0_d1_index == FirstWayWith(set, FALSE, TRUE)
      r1_d0_index == FirstWayWith(set, TRUE, FALSE)
  IN  IF r0_d0_index # L1_LINES_PER_SET THEN r0_d0_index
      ELSE IF r1_d0_index # L1_LINES_PER_SET THEN r1_d0_index
      ELSE IF r0_d1_index # L1_LINES_PER_SET THEN r0_d1_index
      ELSE 0

\* the way l1_insert_line overwrites when every way of the set is valid
L1Victim(set) ==
  LET r0_d0_index == FirstWayWith(set, FALSE, FALSE)
      r0_d1_index == FirstWayWith(set, FALSE, TRUE)
      r1_d0_index == FirstWayWith(set, TRUE, FALSE)
  IN  IF r0_d0_index # L1_LINES_PER_SET THEN r0_d0_index
      ELSE IF r0_d1_index # L1_LINES_PER_SET THEN r0_d1_index
      ELSE IF r1_d0_index # L1_LINES_PER_SET THEN r1_d0_index
      ELSE 0

\* a scan that does not stop at an invalid way when it has already passed a
\* valid way with reference and dirty clear
L1InsertWayNoEarlyReturn(set) ==
  LET free == Min({i \in Ways : ~set[i].v} \cup {L1_LINES_PER_SET})
      seen == {i \in Ways : i < free /\ set[i].v /\ ~set[i].r /\ ~set[i].d}
  IN  IF seen # {} THEN Min(seen)
      ELSE IF free # L1_LINES_PER_SET THEN free
      ELSE L1Victim(set)

\* the way l1_insert_line writes the new line to
L1InsertWay(set) ==
  IF \E i \in Ways : ~set[i].v
  THEN Min({i \in Ways : ~set[i].v})
  ELSE L1Victim(set)

\* an address built with the tag shifted by the set index's shift
L1EvictedAddressSetShift(tag, index_set_bits) ==
  tag * Pow2(L1_SET_INDEX_SHIFT) + index_set_bits * Pow2(L1_SET_INDEX_SHIFT)

\* the address of the line an entry of a set holds:
\* (tag << L1_ADDRESS_TAG_SHIFT) | (index_set_bits << L1_SET_INDEX_SHIFT)
L1EvictedAddress(tag, index_set_bits) ==
  tag * Pow2(L1_ADDRESS_TAG_SHIFT) + index_set_bits * Pow2(L1_SET_INDEX_SHIFT)

\* an overwrite that clears the reference bit with the dirty bit
L1OverwriteClearR(old, tag_bits, write_data) ==
  [v |-> TRUE, r |-> FALSE, d |-> FALSE, tag |-> tag_bits, cache_line |-> write_data]

\* the entry of a way the scan chose, once the new line is in it: valid set,
\* dirty cleared, the new tag; the reference bit is not assigned
L1Overwrite(old, tag_bits, write_data) ==
  [v |-> TRUE, r |-> old.r, d |-> FALSE, tag |-> tag_bits, cache_line |-> write_data]

\* an l1_insert_line that leaves the tag of an overwritten valid way as it was
l1_insert_line_stale_tag(l1, address, write_data, evicted_writeback_address, evicted_writeback_data) ==
  LET index_set_bits == L1SetIndex(address)
      tag_bits == L1Tag(address)
      set == l1[index_set_bits]
      curr_entry == L1InsertWay(set)
      old == set[curr_entry]
  IN  IF ~old.v
      THEN [l1 |-> [l1 EXCEPT ![index_set_bits][curr_entry] =
                      [v |-> TRUE, r |-> FALSE, d |-> FALSE, tag |-> tag_bits,
                       cache_line |-> write_data]],
            status |-> FALSE,
            evicted_writeback_address |-> evicted_writeback_address,
            evicted_writeback_data |-> evicted_writeback_data]
      ELSE [l1 |-> [l1 EXCEPT ![index_set_bits][curr_entry] =
                      [v |-> TRUE, r |-> old.r, d |-> FALSE, tag |-> old.tag,
                       cache_line |-> write_data]],
            status |-> old.d,
            evicted_writeback_address |->
              IF old.d
              THEN old.tag * Pow2(L1_ADDRESS_TAG_SHIFT)
                     + index_set_bits * Pow2(L1_SET_INDEX_SHIFT)
              ELSE evicted_writeback_address,
            evicted_writeback_data |->
              IF old.d THEN old.cache_line ELSE evicted_writeback_data]

\* l1_insert_line: [l1, status, evicted_writeback_address,
\* evicted_writeback_data]; the two evicted_ outputs are assigned only when
\* status is TRUE.  An invalid way is filled with reference and dirty
\* cleared; a way chosen by the scan keeps its reference bit.
l1_insert_line(l1, address, write_data, evicted_writeback_address, evicted_writeback_data) ==
  LET index_set_bits == L1SetIndex(address)
      tag_bits == L1Tag(address)
      set == l1[index_set_bits]
      curr_entry == L1InsertWay(set)
      old == set[curr_entry]
  IN  IF ~old.v
      THEN [l1 |-> [l1 EXCEPT ![index_set_bits][curr_entry] =
                      [v |-> TRUE, r |-> FALSE, d |-> FALSE, tag |-> tag_bits,
                       cache_line |-> write_data]],
            status |-> FALSE,
            evicted_writeback_address |-> evicted_writeback_address,
            evicted_writeback_data |-> evicted_writeback_data]
      ELSE [l1 |-> [l1 EXCEPT ![index_set_bits][curr_entry] =
                      L1Overwrite(old, tag_bits, write_data)],
            status |-> old.d,
            evicted_writeback_address |->
              IF old.d
              THEN L1EvictedAddress(old.tag, index_set_bits)
              ELSE evicted_writeback_address,
            evicted_writeback_data |->
              IF old.d THEN old.cache_line ELSE evicted_writeback_data]

\* an l1_clear_r_bits whose mask takes the dirty bit along
l1_clear_r_bits_and_dirty(l1) ==
  [s \in DOMAIN l1 |-> [w \in Ways |-> [l1[s][w] EXCEPT !.r = FALSE, !.d = FALSE]]]

\* l1_clear_r_bits: clears the reference bit of every entry of every set
l1_clear_r_bits(l1) ==
  [s \in DOMAIN l1 |-> [w \in Ways |-> [l1[s][w] EXCEPT !.r = FALSE]]]

(***************************************************************************)
(* The memory subsystem controller.  A hierarchy state h is the record of  *)
(* the globals: l1_cache, l2_cache, main_memory,                           *)
(* main_memory_size_in_bytes, num_l1_misses, num_l2_misses.  A procedure   *)
(* is a chain of operators, one per step of its code, each handed the      *)
(* result of the call before it.                                           *)
(***************************************************************************)
\* n += 1 on a uint32_t; the wrap at 2^32 lies beyond every run of the model
Incr32(n) == n + 1

\* memory_handle_l2_miss, its result: the new l2_cache and main_memory, fatal
\* (main_memory_access ended the process), and the numbers of main-memory
\* line reads and writes made
L2MissResult(control, ins, wb) ==
  [fatal |-> wb.fatal, l2 |-> ins.l2, mem |-> wb.mem,
   mm_reads |-> IF TestBit(control, READ_ENABLE_MASK) THEN 1 ELSE 0,
   mm_writes |-> IF ins.status /\ ~wb.fatal THEN 1 ELSE 0]

\* memory_handle_l2_miss, the write-back to main memory of the line that
\* l2_insert_line evicted
L2MissWriteback(size_in_bytes, control, fetch, ins) ==
  L2MissResult(control, ins,
    IF ins.status
    THEN main_memory_access(fetch.mem, size_in_bytes,
                            ins.evicted_writeback_address,
                            ins.evicted_writeback_data, WRITE_ENABLE_MASK,
                            ins.evicted_writeback_data)
    ELSE [fatal |-> FALSE, mem |-> fetch.mem, read_data |-> fetch.read_data])

\* an insertion made only for a miss caused by a read
L2MissInsertReadOnly(l2, size_in_bytes, address, control, cache_line, fetch) ==
  IF fetch.fatal \/ ~TestBit(control, READ_ENABLE_MASK)
  THEN [fatal |-> fetch.fatal, l2 |-> l2, mem |-> fetch.mem, mm_reads |-> 0,
        mm_writes |-> 0]
  ELSE L2MissWriteback(size_in_bytes, control, fetch,
         l2_insert_line(l2, address, fetch.read_data, 0, cache_line))

\* memory_handle_l2_miss, the insertion into L2 of the array cache_line
L2MissInsert(l2, size_in_bytes, address, control, cache_line, fetch) ==
  IF fetch.fatal
  THEN [fatal |-> TRUE, l2 |-> l2, mem |-> fetch.mem, mm_reads |-> 0,
        mm_writes |-> 0]
  ELSE L2MissWriteback(size_in_bytes, control, fetch,
         l2_insert_line(l2, address, fetch.read_data, 0, cache_line))

\* memory_handle_l2_miss, the fetch from main memory into cache_line, made
\* only for a miss caused by a read
L2MissFetch(mem, size_in_bytes, address, control, cache_line) ==
  IF TestBit(control, READ_ENABLE_MASK)
  THEN main_memory_access(mem, size_in_bytes, address, cache_line,
                          READ_ENABLE_MASK, cache_line)
  ELSE [fatal |-> FALSE, mem |-> mem, read_data |-> cache_line]

\* memory_handle_l2_miss(address, control).  cache_line is the content of
\* the uninitialized local array cache_line at entry.
memory_handle_l2_miss(l2, mem, size_in_bytes, address, control, cache_line) ==
  L2MissInsert(l2, size_in_bytes, address, control, cache_line,
    L2MissFetch(mem, size_in_bytes, address, control, cache_line))

\* memory_handle_l1_miss, the L2 read retried after memory_handle_l2_miss
L1MissFetchDone(n2, miss, retry) ==
  [fatal |-> FALSE, l2 |-> retry.l2, mem |-> miss.mem, n2 |-> Incr32(n2),
   read_data |-> retry.read_data, l2_read_hit |-> FALSE,
   l2_read_retry_hit |-> retry.hit, handler_calls |-> 1,
   mm_reads |-> miss.mm_reads, mm_writes |-> miss.mm_writes]

L1MissFetchRetry(n2, address, first, miss) ==
  IF miss.fatal
  THEN [fatal |-> TRUE, l2 |-> miss.l2, mem |-> miss.mem, n2 |-> Incr32(n2),
        read_data |-> first.read_data, l2_read_hit |-> FALSE,
        l2_read_retry_hit |-> FALSE, handler_calls |-> 1,
        mm_reads |-> miss.mm_reads, mm_writes |-> miss.mm_writes]
  ELSE L1MissFetchDone(n2, miss,
         l2_cache_access(miss.l2, address, first.read_data, READ_ENABLE_MASK,
                         first.read_data))

\* memory_handle_l1_miss, the handling of a miss of its L2 read
L1MissFetchMiss(l2, mem, size_in_bytes, n2, address, uninit_cl, first) ==
  IF first.hit
  THEN [fatal |-> FALSE, l2 |-> first.l2, mem |-> mem, n2 |-> n2,
        read_data |-> first.read_data, l2_read_hit |-> TRUE,
        l2_read_retry_hit |-> FALSE, handler_calls |-> 0,
        mm_reads |-> 0, mm_writes |-> 0]
  ELSE L1MissFetchRetry(n2, address, first,
         memory_handle_l2_miss(l2, mem, size_in_bytes, address,
                               READ_ENABLE_MASK, uninit_cl))

\* memory_handle_l1_miss(address), first part: the line is read from L2 into
\* the local array read_data, through memory_handle_l2_miss when the read
\* misses.  uninit_rd and uninit_cl are the contents of the uninitialized
\* locals read_data (here) and cache_line (in memory_handle_l2_miss).
L1MissFetch(l2, mem, size_in_bytes, n2, address, uninit_rd, uninit_cl) ==
  L1MissFetchMiss(l2, mem, size_in_bytes, n2, address, uninit_cl,
    l2_cache_access(l2, address, uninit_rd, READ_ENABLE_MASK, uninit_rd))

\* memory_handle_l1_miss, the L2 write retried after memory_handle_l2_miss
L1MissWritebackDone(miss, retry) ==
  [fatal |-> FALSE, l2 |-> retry.l2, mem |-> miss.mem, wb_hit |-> FALSE,
   wb_retry_hit |-> retry.hit, handler_calls |-> 1,
   mm_reads |-> miss.mm_reads, mm_writes |-> miss.mm_writes]

\* a handling that does not make the write again
L1MissWritebackRetrySkipped(evicted_writeback_address, read_data, uninit_cl, miss) ==
  [fatal |-> miss.fatal, l2 |-> miss.l2, mem |-> miss.mem, wb_hit |-> FALSE,
   wb_retry_hit |-> FALSE, handler_calls |-> 1,
   mm_reads |-> miss.mm_reads, mm_writes |-> miss.mm_writes]

\* the data of the retried write is the array read_data
L1MissWritebackRetry(evicted_writeback_address, read_data, uninit_cl, miss) ==
  IF miss.fatal
  THEN [fatal |-> TRUE, l2 |-> miss.l2, mem |-> miss.mem, wb_hit |-> FALSE,
        wb_retry_hit |-> FALSE, handler_calls |-> 1,
        mm_reads |-> miss.mm_reads, mm_writes |-> miss.mm_writes]
  ELSE L1MissWritebackDone(miss,
         l2_cache_access(miss.l2, evicted_writeback_address, read_data,
                         WRITE_ENABLE_MASK, uninit_cl))

\* a handling that tells memory_handle_l2_miss the miss came from a read
L1MissWritebackMissReadCause(l2, mem, size_in_bytes, evicted_writeback_address, read_data, uninit_cl, first) ==
  IF first.hit
  THEN [fatal |-> FALSE, l2 |-> first.l2, mem |-> mem, wb_hit |-> TRUE,
        wb_retry_hit |-> FALSE, handler_calls |-> 0, mm_reads |-> 0,
        mm_writes |-> 0]
  ELSE L1MissWritebackRetry(evicted_writeback_address, read_data, uninit_cl,
         memory_handle_l2_miss(l2, mem, size_in_bytes,
                               evicted_writeback_address, READ_ENABLE_MASK,
                               uninit_cl))

\* memory_handle_l1_miss, the handling of a miss of its L2 write
L1MissWritebackMiss(l2, mem, size_in_bytes, evicted_writeback_address, read_data, uninit_cl, first) ==
  IF first.hit
  THEN [fatal |-> FALSE, l2 |-> first.l2, mem |-> mem, wb_hit |-> TRUE,
        wb_retry_hit |-> FALSE, handler_calls |-> 0, mm_reads |-> 0,
        mm_writes |-> 0]
  ELSE L1MissWritebackRetry(evicted_writeback_address, read_data, uninit_cl,
         memory_handle_l2_miss(l2, mem, size_in_bytes,
                               evicted_writeback_address, WRITE_ENABLE_MASK,
                               uninit_cl))

\* memory_handle_l1_miss(address), second part: the line evicted from L1 is
\* written to L2; when that write misses, memory_handle_l2_miss makes room
\* and the write is retried
L1MissWriteback(l2, mem, size_in_bytes, evicted_writeback_address, evicted_writeback_data, read_data, uninit_cl) ==
  L1MissWritebackMiss(l2, mem, size_in_bytes, evicted_writeback_address,
                      read_data, uninit_cl,
    l2_cache_access(l2, evicted_writeback_address, evicted_writeback_data,
                    WRITE_ENABLE_MASK, uninit_cl))

\* what memory_handle_l1_miss did, before any write-back
L1MissInfo(f) ==
  [l2_read_hit |-> f.l2_read_hit, l2_read_retry_hit |-> f.l2_read_retry_hit,
   fetched |-> f.read_data,
   needs_writeback |-> FALSE, evicted_writeback_address |-> 0,
   evicted_writeback_data |-> ZeroLine, wb_hit |-> FALSE,
   wb_retry_hit |-> FALSE, handler_calls |-> f.handler_calls,
   mm_reads |-> f.mm_reads, mm_writes |-> f.mm_writes]

\* a handling that counts the miss of the write of the evicted line too
L1MissDoneCountsWriteMiss(h, f, ins, w) ==
  [fatal |-> w.fatal,
   h |-> [h EXCEPT !.l1_cache = ins.l1, !.l2_cache = w.l2,
                   !.main_memory = w.mem,
                   !.num_l2_misses = IF w.wb_hit THEN f.n2 ELSE Incr32(f.n2)],
   info |-> [L1MissInfo(f) EXCEPT
               !.needs_writeback = TRUE,
               !.evicted_writeback_address = ins.evicted_writeback_address,
               !.evicted_writeback_data = ins.evicted_writeback_data,
               !.wb_hit = w.wb_hit, !.wb_retry_hit = w.wb_retry_hit,
               !.handler_calls = f.handler_calls + w.handler_calls,
               !.mm_reads = f.mm_reads + w.mm_reads,
               !.mm_writes = f.mm_writes + w.mm_writes]]

L1MissDone(h, f, ins, w) ==
  [fatal |-> w.fatal,
   h |-> [h EXCEPT !.l1_cache = ins.l1, !.l2_cache = w.l2,
                   !.main_memory = w.mem, !.num_l2_misses = f.n2],
   info |-> [L1MissInfo(f) EXCEPT
               !.needs_writeback = TRUE,
               !.evicted_writeback_address = ins.evicted_writeback_address,
               !.evicted_writeback_data = ins.evicted_writeback_data,
               !.wb_hit = w.wb_hit, !.wb_retry_hit = w.wb_retry_hit,
               !.handler_calls = f.handler_calls + w.handler_calls,
               !.mm_reads = f.mm_reads + w.mm_reads,
               !.mm_writes = f.mm_writes + w.mm_writes]]

\* memory_handle_l1_miss, the write-back when l1_insert_line asks for it
L1MissEvict(h, uninit_cl, f, ins) ==
  IF ~ins.status
  THEN [fatal |-> FALSE,
        h |-> [h EXCEPT !.l1_cache = ins.l1, !.l2_cache = f.l2,
                        !.main_memory = f.mem, !.num_l2_misses = f.n2],
        info |-> L1MissInfo(f)]
  ELSE L1MissDone(h, f, ins,
         L1MissWriteback(f.l2, f.mem, h.main_memory_size_in_bytes,
                         ins.evicted_writeback_address,
                         ins.evicted_writeback_data, f.read_data, uninit_cl))

\* memory_handle_l1_miss, the insertion into L1 of the line read from L2
L1MissInsert(h, address, uninit_cl, f) ==
  IF f.fatal
  THEN [fatal |-> TRUE,
        h |-> [h EXCEPT !.l2_cache = f.l2, !.main_memory = f.mem,
                        !.num_l2_misses = f.n2],
        info |-> L1MissInfo(f)]
  ELSE L1MissEvict(h, uninit_cl, f,
         l1_insert_line(h.l1_cache, address, f.read_data, 0, uninit_cl))

\* memory_handle_l1_miss(address): fetch, l1_insert_line, write-back
memory_handle_l1_miss(h, address, uninit_rd, uninit_cl) ==
  L1MissInsert(h, address, uninit_cl,
    L1MissFetch(h.l2_cache, h.main_memory, h.main_memory_size_in_bytes,
                h.num_l2_misses, address, uninit_rd, uninit_cl))

\* what a memory_access that hits in L1 at once reports of the miss handling
NoMissInfo ==
  [l2_read_hit |-> FALSE, l2_read_retry_hit |-> FALSE, fetched |-> ZeroLine,
   needs_writeback |-> FALSE, evicted_writeback_address |-> 0,
   evicted_writeback_data |-> ZeroLine, wb_hit |-> FALSE, wb_retry_hit |-> FALSE,
   handler_calls |-> 0, mm_reads |-> 0, mm_writes |-> 0]

\* memory_access, the second l1_cache_access
MemoryAccessDone(m, retry) ==
  [fatal |-> FALSE, h |-> [m.h EXCEPT !.l1_cache = retry.l1],
   read_data |-> retry.read_data, l1_hit |-> FALSE,
   l1_retry_hit |-> retry.hit, info |-> m.info]

MemoryAccessRetry(address, write_data, control, first, m) ==
  IF m.fatal
  THEN [fatal |-> TRUE, h |-> m.h, read_data |-> first.read_data,
        l1_hit |-> FALSE, l1_retry_hit |-> FALSE, info |-> m.info]
  ELSE MemoryAccessDone(m,
         l1_cache_access(m.h.l1_cache, address, write_data, control,
                         first.read_data))

\* a handling that counts every access as a miss
MemoryAccessMissCountsHit(h, address, write_data, control, uninit_rd, uninit_cl, first) ==
  IF first.hit
  THEN [fatal |-> FALSE,
        h |-> [h EXCEPT !.l1_cache = first.l1, !.num_l1_misses = Incr32(@)],
        read_data |-> first.read_data, l1_hit |-> TRUE,
        l1_retry_hit |-> FALSE, info |-> NoMissInfo]
  ELSE MemoryAccessRetry(address, write_data, control, first,
         memory_handle_l1_miss([h EXCEPT !.num_l1_misses = Incr32(@)],
                               address, uninit_rd, uninit_cl))

\* a handling that does not count the miss
MemoryAccessMissNotCounted(h, address, write_data, control, uninit_rd, uninit_cl, first) ==
  IF first.hit
  THEN [fatal |-> FALSE, h |-> [h EXCEPT !.l1_cache = first.l1],
        read_data |-> first.read_data, l1_hit |-> TRUE,
        l1_retry_hit |-> FALSE, info |-> NoMissInfo]
  ELSE MemoryAccessRetry(address, write_data, control, first,
         memory_handle_l1_miss(h, address, uninit_rd, uninit_cl))

\* memory_access, the handling of a miss of the first l1_cache_access
MemoryAccessMiss(h, address, write_data, control, uninit_rd, uninit_cl, first) ==
  IF first.hit
  THEN [fatal |-> FALSE, h |-> [h EXCEPT !.l1_cache = first.l1],
        read_data |-> first.read_data, l1_hit |-> TRUE,
        l1_retry_hit |-> FALSE, info |-> NoMissInfo]
  ELSE MemoryAccessRetry(address, write_data, control, first,
         memory_handle_l1_miss([h EXCEPT !.num_l1_misses = Incr32(@)],
                               address, uninit_rd, uninit_cl))

\* memory_access(address, write_data, control, read_data): the new hierarchy
\* state, the caller's read_data, and what happened on the way
memory_access(h, address, write_data, control, read_data, uninit_rd, uninit_cl) ==
  MemoryAccessMiss(h, address, write_data, control, uninit_rd, uninit_cl,
    l1_cache_access(h.l1_cache, address, write_data, control, read_data))

\* what an uninitialized local array may hold
UninitLines == {[i \in LineIndexes |-> g] : g \in {0, MaxWord + 1}}

\* whether a run of memory_access read an uninitialized local array: the
\* cache_line of memory_handle_l2_miss is inserted into L2 unwritten when the
\* miss was caused by a write, the read_data of memory_handle_l1_miss is
\* left unwritten when no L2 read hit
ReadsUninit(res) ==
  /\ ~res.l1_hit
  /\ \/ res.info.needs_writeback /\ ~res.info.wb_hit
     \/ ~res.info.l2_read_hit /\ ~res.info.l2_read_retry_hit

MemoryAccessOutcomesOf(h, address, write_data, control, read_data, probe) ==
  IF ReadsUninit(probe)
  THEN {memory_access(h, address, write_data, control, read_data, rd, cl) :
          rd \in UninitLines, cl \in UninitLines}
  ELSE {probe}

\* the outcomes of memory_access over every content of the uninitialized
\* locals read_data (of memory_handle_l1_miss) and cache_line (of
\* memory_handle_l2_miss)
MemoryAccessOutcomes(h, address, write_data, control, read_data) ==
  MemoryAccessOutcomesOf(h, address, write_data, control, read_data,
    memory_access(h, address, write_data, control, read_data, ZeroLine, ZeroLine))

\* memory_subsystem_initialize(memory_size_in_bytes), past the size check
memory_subsystem_initialize(h, memory_size_in_bytes) ==
  [l1_cache |-> l1_initialize(h.l1_cache),
   l2_cache |-> l2_initialize(h.l2_cache),
   main_memory |-> main_memory_initialize(memory_size_in_bytes),
   main_memory_size_in_bytes |-> memory_size_in_bytes,
   num_l1_misses |-> 0,
   num_l2_misses |-> 0]

\* a clock interrupt that also starts the count of L1 misses again
memory_handle_clock_interrupt_reset(h) ==
  [h EXCEPT !.l1_cache = l1_clear_r_bits(@), !.num_l1_misses = 0]

\* memory_handle_clock_interrupt()
memory_handle_clock_interrupt(h) ==
  [h EXCEPT !.l1_cache = l1_clear_r_bits(@)]

(***************************************************************************)
(* State.  The globals of the program, the caller's read_data, whether the *)
(* process has ended in exit(1), and history variables: last describes the *)
(* last operation, flat maps every word address written since the last     *)
(* initialization to the last word written to it, touched is the set of    *)
(* line addresses accessed since the last initialization, evicted the set  *)
(* of line addresses that l1_insert_line has since handed out for          *)
(* write-back, steps the number of operations made.                        *)
(***************************************************************************)
VARIABLES l1_cache, l2_cache, main_memory, main_memory_size_in_bytes,
          num_l1_misses, num_l2_misses, read_data, halted,
          last, flat, touched, evicted, steps, twin

vars == <<l1_cache, l2_cache, main_memory, main_memory_size_in_bytes,
          num_l1_misses, num_l2_misses, read_data, halted,
          last, flat, touched, evicted, steps, twin>>

\* the globals as one hierarchy state
H ==
  [l1_cache |-> l1_cache, l2_cache |-> l2_cache, main_memory |-> main_memory,
   main_memory_size_in_bytes |-> main_memory_size_in_bytes,
   num_l1_misses |-> num_l1_misses, num_l2_misses |-> num_l2_misses]

SetH(h) ==
  /\ l1_cache' = h.l1_cache
  /\ l2_cache' = h.l2_cache
  /\ main_memory' = h.main_memory
  /\ main_memory_size_in_bytes' = h.main_memory_size_in_bytes
  /\ num_l1_misses' = h.num_l1_misses
  /\ num_l2_misses' = h.num_l2_misses

\* no second hierarchy is run
NoTwin == [on |-> FALSE]

\* a second hierarchy before memory_subsystem_initialize: it is given the
\* initializations and the accesses of the first and no clock interrupt
TwinStart ==
  [on |-> TRUE,
   h |-> [l1_cache |-> [s \in 0 .. (L1_NUM_CACHE_SETS - 1) |-> [w \in Ways |-> L1ZeroEntry]],
          l2_cache |-> [i \in 0 .. (L2_NUM_CACHE_ENTRIES - 1) |-> L2ZeroEntry],
          main_memory |-> main_memory_initialize(0),
          main_memory_size_in_bytes |-> 0,
          num_l1_misses |-> 0, num_l2_misses |-> 0],
   read_data |-> 0,
   fatal |-> FALSE]

\* memory_subsystem_initialize(memory_size_in_bytes) on the second hierarchy
TwinInitialize(t, memory_size_in_bytes) ==
  IF t.on /\ MainMemorySizeOk(memory_size_in_bytes)
  THEN [t EXCEPT !.h = memory_subsystem_initialize(@, memory_size_in_bytes)]
  ELSE t

\* memory_access(address, write_data, control, read_data) on the second
\* hierarchy
TwinAccessOutcomes(t, address, write_data, control) ==
  IF t.on
  THEN {[on |-> TRUE, h |-> res.h, read_data |-> res.read_data, fatal |-> res.fatal] :
          res \in MemoryAccessOutcomes(t.h, address, write_data, control, t.read_data)}
  ELSE {t}

\* the program before memory_subsystem_initialize: zero-initialized globals
Init ==
  /\ l1_cache = [s \in 0 .. (L1_NUM_CACHE_SETS - 1) |-> [w \in Ways |-> L1ZeroEntry]]
  /\ l2_cache = [i \in 0 .. (L2_NUM_CACHE_ENTRIES - 1) |-> L2ZeroEntry]
  /\ main_memory = main_memory_initialize(0)
  /\ main_memory_size_in_bytes = 0
  /\ num_l1_misses = 0
  /\ num_l2_misses = 0
  /\ read_data = 0
  /\ halted = FALSE
  /\ last = [op |-> "none"]
  /\ flat = [a \in {} |-> 0]
  /\ touched = {}
  /\ evicted = {}
  /\ steps = 0
  /\ twin = NoTwin

\* memory_subsystem_initialize(memory_size_in_bytes): main_memory_initialize
\* ends the process, before anything is changed, when the size is no
\* multiple of 32
Initialize(memory_size_in_bytes) ==
  /\ ~halted
  /\ IF MainMemorySizeOk(memory_size_in_bytes)
     THEN /\ SetH(memory_subsystem_initialize(H, memory_size_in_bytes))
          /\ halted' = FALSE
          /\ flat' = [a \in {} |-> 0]
          /\ touched' = {}
          /\ evicted' = {}
     ELSE /\ halted' = TRUE
          /\ UNCHANGED <<l1_cache, l2_cache, main_memory,
                         main_memory_size_in_bytes, num_l1_misses,
                         num_l2_misses, flat, touched, evicted>>
  /\ last' = [op |-> "initialize", size |-> memory_size_in_bytes,
              fatal |-> ~MainMemorySizeOk(memory_size_in_bytes)]
  /\ steps' = steps + 1
  /\ twin' = TwinInitialize(twin, memory_size_in_bytes)
  /\ UNCHANGED read_data

\* memory_access(address, write_data, control, &read_data)
Access(address, write_data, control) ==
  /\ ~halted
  /\ \E res \in MemoryAccessOutcomes(H, address, write_data, control, read_data) :
       LET wr == TestBit(control, WRITE_ENABLE_MASK) /\ ~res.fatal
       IN  /\ SetH(res.h)
           /\ read_data' = res.read_data
           /\ halted' = res.fatal
           /\ last' = [op |-> "memory_access", address |-> address,
                       write_data |-> write_data, control |-> control,
                       fatal |-> res.fatal, l1_hit |-> res.l1_hit,
                       l1_retry_hit |-> res.l1_retry_hit, info |-> res.info,
                       first_touch |-> CacheLineAddress(address) \notin touched,
                       repeat |-> /\ last.op = "memory_access"
                                  /\ last.address = address,
                       was_evicted |-> CacheLineAddress(address) \in evicted,
                       was_written |-> address \in DOMAIN flat,
                       expected |-> IF address \in DOMAIN flat
                                    THEN flat[address] ELSE 0,
                       n1 |-> num_l1_misses, n2 |-> num_l2_misses]
           /\ flat' = IF wr
                      THEN [a \in DOMAIN flat \cup {address} |->
                              IF a = address THEN write_data ELSE flat[a]]
                      ELSE flat
           /\ evicted' = IF res.info.needs_writeback
                         THEN evicted \cup {res.info.evicted_writeback_address}
                         ELSE evicted
  /\ touched' = touched \cup {CacheLineAddress(address)}
  /\ steps' = steps + 1
  /\ twin' \in TwinAccessOutcomes(twin, address, write_data, control)

\* memory_handle_clock_interrupt()
ClockInterrupt ==
  /\ ~halted
  /\ SetH(memory_handle_clock_interrupt(H))
  /\ last' = [op |-> "clock"]
  /\ steps' = steps + 1
  /\ UNCHANGED twin
  /\ UNCHANGED <<read_data, halted, flat, touched, evicted>>

(***************************************************************************)
(* The whole subsystem, every input: all word addresses of the first       *)
(* MaxLines lines and of the line past them, all four control values.      *)
(***************************************************************************)
Sizes == {0, 2 * CACHE_LINE_BYTES, MaxLines * CACHE_LINE_BYTES,
          MaxLines * CACHE_LINE_BYTES - BYTES_PER_WORD}

WordOffsets == {0, 1}

Addresses ==
  {l * CACHE_LINE_BYTES + w * BYTES_PER_WORD : l \in 0 .. MaxLines, w \in WordOffsets}

Words == 1 .. MaxWord

Controls == 0 .. (READ_ENABLE_MASK + WRITE_ENABLE_MASK)

Next ==
  \/ \E size \in Sizes : steps < MaxSteps /\ Initialize(size)
  \/ \E a \in Addresses, c \in Controls :
       \E w \in (IF TestBit(c, WRITE_ENABLE_MASK) THEN Words ELSE {0}) :
          steps < MaxSteps /\ Access(a, w, c)
  \/ steps < MaxSteps /\ ClockInterrupt

Spec == Init /\ [][Next]_vars

(***************************************************************************)
(* The subsystem under a workload on one L1 set: word 0 of the first      *)
(* L1_LINES_PER_SET + 1 lines of set 0, read or written, long enough for   *)
(* evictions and write-backs.                                              *)
(***************************************************************************)
\* the bytes from a line of a set to the next line of the set
L1SetStride == Pow2(L1_ADDRESS_TAG_SHIFT)

HotSize == (L1_LINES_PER_SET + 1) * L1SetStride

HotAddresses == {t * L1SetStride : t \in 0 .. L1_LINES_PER_SET}

NextHot ==
  \/ steps = 0 /\ Initialize(HotSize)
  \/ \E a \in HotAddresses :
       steps < MaxHotSteps /\ Access(a, 0, READ_ENABLE_MASK)
  \/ \E a \in HotAddresses :
       steps < MaxHotSteps /\ Access(a, 1, WRITE_ENABLE_MASK)
  \/ steps < MaxHotSteps /\ ClockInterrupt

SpecHot == Init /\ [][NextHot]_vars

(***************************************************************************)
(* The subsystem under a workload on one L1 set that starts the same way   *)
(* in every run: an initialization, then a word written to each of four    *)
(* lines of set 0, the second of them at word 1 of its line.  After that   *)
(* the run reads word 1 or writes word 0 of any line of the set, takes     *)
(* clock interrupts and initializes again.                                 *)
(***************************************************************************)
\* operations in one run of this workload
MaxWarmSteps == 10

WarmWrites ==
  <<3 * L1SetStride, L1SetStride + BYTES_PER_WORD, 0, 2 * L1SetStride>>

Warm == steps > Len(WarmWrites) /\ steps < MaxWarmSteps

NextWarm ==
  \/ steps = 0 /\ Initialize(HotSize)
  \/ /\ steps \in 1 .. Len(WarmWrites)
     /\ Access(WarmWrites[steps], 1, WRITE_ENABLE_MASK)
  \/ \E a \in HotAddresses :
       Warm /\ Access(a + BYTES_PER_WORD, 0, READ_ENABLE_MASK)
  \/ \E a \in HotAddresses : Warm /\ Access(a, 1, WRITE_ENABLE_MASK)
  \/ Warm /\ ClockInterrupt
  \/ Warm /\ Initialize(HotSize)

SpecWarm == Init /\ [][NextWarm]_vars

(***************************************************************************)
(* Re-initialization over filled caches: an initialization, a word written *)
(* to each of the five lines of L1 set 0 (the fifth evicts a dirty line),  *)
(* then accesses of the lines of the set, clock interrupts, and            *)
(* initializations with the same or a smaller memory size.                 *)
(***************************************************************************)
\* operations in one run of this workload
MaxShrinkSteps == 9

ShrinkWrites == <<0, L1SetStride, 2 * L1SetStride, 3 * L1SetStride, 4 * L1SetStride>>

ShrinkSizes == {L1SetStride, L1SetStride + CACHE_LINE_BYTES, 2 * L1SetStride, HotSize}

Shrinking == steps > Len(ShrinkWrites) /\ steps < MaxShrinkSteps

NextShrink ==
  \/ steps = 0 /\ Initialize(HotSize)
  \/ /\ steps \in 1 .. Len(ShrinkWrites)
     /\ Access(ShrinkWrites[steps], 1, WRITE_ENABLE_MASK)
  \/ \E a \in HotAddresses, c \in Controls :
       Shrinking /\ Access(a, MaxWord, c)
  \/ Shrinking /\ ClockInterrupt
  \/ \E size \in ShrinkSizes : Shrinking /\ Initialize(size)

SpecShrink == Init /\ [][NextShrink]_vars

(***************************************************************************)
(* The subsystem under every control value: an initialization, a word      *)
(* written to each of the first four lines of L1 set 0, then accesses of   *)
(* word 0 of the lines of the set with each of the four control values,    *)
(* and clock interrupts.                                                   *)
(***************************************************************************)
\* operations in one run of this workload
MaxFlagSteps == 8

FlagWrites == <<0, L1SetStride, 2 * L1SetStride, 3 * L1SetStride>>

Flagged == steps > Len(FlagWrites) /\ steps < MaxFlagSteps

NextFlags ==
  \/ steps = 0 /\ Initialize(HotSize)
  \/ /\ steps \in 1 .. Len(FlagWrites)
     /\ Access(FlagWrites[steps], 1, WRITE_ENABLE_MASK)
  \/ \E a \in HotAddresses, c \in Controls :
       Flagged /\ Access(a, MaxWord, c)
  \/ Flagged /\ ClockInterrupt

SpecFlags == Init /\ [][NextFlags]_vars

(***************************************************************************)
(* Two runs of the subsystem side by side: the same initialization and the *)
(* same accesses reach both hierarchies, the clock interrupts reach the    *)
(* first only.  A word is written to each of the first four lines of L1    *)
(* set 0, then come accesses of the lines of the set and clock interrupts. *)
(***************************************************************************)
\* operations in one run of this workload
MaxTwinSteps == 9

InitTwin ==
  /\ l1_cache = TwinStart.h.l1_cache
  /\ l2_cache = TwinStart.h.l2_cache
  /\ main_memory = TwinStart.h.main_memory
  /\ main_memory_size_in_bytes = 0
  /\ num_l1_misses = 0
  /\ num_l2_misses = 0
  /\ read_data = 0
  /\ halted = FALSE
  /\ last = [op |-> "none"]
  /\ flat = [a \in {} |-> 0]
  /\ touched = {}
  /\ evicted = {}
  /\ steps = 0
  /\ twin = TwinStart

Twinned == steps > Len(FlagWrites) /\ steps < MaxTwinSteps

NextTwin ==
  \/ steps = 0 /\ Initialize(HotSize)
  \/ /\ steps \in 1 .. Len(FlagWrites)
     /\ Access(FlagWrites[steps], 1, WRITE_ENABLE_MASK)
  \/ \E a \in HotAddresses, c \in Controls :
       Twinned /\ Access(a, MaxWord, c)
  \/ Twinned /\ ClockInterrupt

SpecTwin == InitTwin /\ [][NextTwin]_vars

(***************************************************************************)
(* Main memory alone: main_memory_initialize and main_memory_access called *)
(* directly, read_data being the caller's line buffer.                     *)
(***************************************************************************)
\* operations in one run of a component
MaxComponentSteps == 4

\* the lines of the callers: every word the same value
Lines == {[i \in LineIndexes |-> v] : v \in Words}

InitMM ==
  /\ l1_cache = [s \in 0 .. (L1_NUM_CACHE_SETS - 1) |-> [w \in Ways |-> L1ZeroEntry]]
  /\ l2_cache = [i \in 0 .. (L2_NUM_CACHE_ENTRIES - 1) |-> L2ZeroEntry]
  /\ main_memory = main_memory_initialize(0)
  /\ main_memory_size_in_bytes = 0
  /\ num_l1_misses = 0
  /\ num_l2_misses = 0
  /\ read_data = ZeroLine
  /\ halted = FALSE
  /\ last = [op |-> "none"]
  /\ flat = [a \in {} |-> 0]
  /\ touched = {}
  /\ evicted = {}
  /\ steps = 0
  /\ twin = NoTwin

\* main_memory_initialize(size_in_bytes)
MainMemoryInitialize(size_in_bytes) ==
  /\ ~halted
  /\ IF MainMemorySizeOk(size_in_bytes)
     THEN /\ main_memory' = main_memory_initialize(size_in_bytes)
          /\ main_memory_size_in_bytes' = size_in_bytes
          /\ halted' = FALSE
     ELSE /\ halted' = TRUE
          /\ UNCHANGED <<main_memory, main_memory_size_in_bytes>>
  /\ last' = [op |-> "main_memory_initialize", size |-> size_in_bytes]
  /\ steps' = steps + 1
  /\ UNCHANGED twin
  /\ UNCHANGED <<l1_cache, l2_cache, num_l1_misses, num_l2_misses, read_data,
                 flat, touched, evicted>>

\* main_memory_access(address, write_data, control, read_data)
MainMemoryAccess(address, write_data, control) ==
  /\ ~halted
  /\ \E res \in {main_memory_access(main_memory, main_memory_size_in_bytes,
                                    address, write_data, control, read_data)} :
       /\ main_memory' = res.mem
       /\ read_data' = res.read_data
       /\ halted' = res.fatal
  /\ last' = [op |-> "main_memory_access", address |-> address,
              write_data |-> write_data, control |-> control]
  /\ steps' = steps + 1
  /\ UNCHANGED twin
  /\ UNCHANGED <<l1_cache, l2_cache, main_memory_size_in_bytes, num_l1_misses,
                 num_l2_misses, flat, touched, evicted>>

\* sizes of 0 to 2 lines, and one that is no multiple of a line
MMSizes == {0, CACHE_LINE_BYTES, 2 * CACHE_LINE_BYTES,
            2 * CACHE_LINE_BYTES - BYTES_PER_WORD}

\* every word address of the first three lines
MMAddresses == {w * BYTES_PER_WORD : w \in 0 .. (3 * WORDS_PER_CACHE_LINE - 1)}

NextMM ==
  \/ \E size \in MMSizes : steps < MaxComponentSteps /\ MainMemoryInitialize(size)
  \/ \E a \in MMAddresses, c \in Controls :
       \E w \in (IF TestBit(c, WRITE_ENABLE_MASK) THEN Lines ELSE {ZeroLine}) :
          steps < MaxComponentSteps /\ MainMemoryAccess(a, w, c)

SpecMM == InitMM /\ [][NextMM]_vars

(***************************************************************************)
(* The L2 cache alone: l2_initialize, l2_cache_access and l2_insert_line   *)
(* called directly.  Here touched is the set of line addresses inserted    *)
(* since the last l2_initialize, and evicted the set of those that a later  *)
(* insertion of a line with the same index and another tag has pushed out  *)
(* and that have not been inserted again.                                  *)
(***************************************************************************)
\* tags of the addresses handed to the L2 cache: 0 .. MaxTag
MaxTag == 2

L2Addresses ==
  {t * Pow2(L2_ADDRESS_TAG_SHIFT) + i * Pow2(L2_INDEX_SHIFT) :
     t \in 0 .. MaxTag, i \in 0 .. (L2_NUM_CACHE_ENTRIES - 1)}

L2Initialize ==
  /\ l2_cache' = l2_initialize(l2_cache)
  /\ last' = [op |-> "l2_initialize"]
  /\ touched' = {}
  /\ evicted' = {}
  /\ steps' = steps + 1
  /\ UNCHANGED twin
  /\ UNCHANGED <<l1_cache, main_memory, main_memory_size_in_bytes,
                 num_l1_misses, num_l2_misses, read_data, halted, flat>>

L2CacheAccess(address, write_data, control) ==
  /\ \E res \in {l2_cache_access(l2_cache, address, write_data, control, read_data)} :
       /\ l2_cache' = res.l2
       /\ read_data' = res.read_data
       /\ last' = [op |-> "l2_cache_access", address |-> address,
                   control |-> control, hit |-> res.hit]
  /\ steps' = steps + 1
  /\ UNCHANGED twin
  /\ UNCHANGED <<l1_cache, main_memory, main_memory_size_in_bytes,
                 num_l1_misses, num_l2_misses, halted, flat, touched, evicted>>

L2InsertLine(address, write_data) ==
  /\ \E res \in {l2_insert_line(l2_cache, address, write_data, 0, ZeroLine)} :
       /\ l2_cache' = res.l2
       /\ last' = [op |-> "l2_insert_line", address |-> address,
                   write_data |-> write_data,
                   status |-> res.status,
                   evicted_writeback_address |-> res.evicted_writeback_address,
                   evicted_writeback_data |-> res.evicted_writeback_data]
  /\ evicted' = (evicted \ {address})
                  \cup {a \in touched : /\ L2Index(a) = L2Index(address)
                                        /\ L2Tag(a) # L2Tag(address)}
  /\ touched' = touched \cup {address}
  /\ steps' = steps + 1
  /\ UNCHANGED twin
  /\ UNCHANGED <<l1_cache, main_memory, main_memory_size_in_bytes,
                 num_l1_misses, num_l2_misses, read_data, halted, flat>>

NextL2 ==
  \/ steps < MaxComponentSteps /\ L2Initialize
  \/ \E a \in L2Addresses, c \in Controls :
       \E w \in (IF TestBit(c, WRITE_ENABLE_MASK) THEN Lines ELSE {ZeroLine}) :
          steps < MaxComponentSteps /\ L2CacheAccess(a, w, c)
  \/ \E a \in L2Addresses, w \in Lines :
       steps < MaxComponentSteps /\ L2InsertLine(a, w)

SpecL2 == InitMM /\ [][NextL2]_vars

(***************************************************************************)
(* The L1 cache alone: l1_cache_access, l1_insert_line and l1_clear_r_bits *)
(* called directly, as the controller calls them: a line is inserted only  *)
(* after its address has missed.  A run starts with set 0 as the program   *)
(* can have filled it: ways 0 .. n-1 valid with tags of their own and any  *)
(* reference and dirty bits, the other ways and sets as l1_initialize      *)
(* leaves them.                                                            *)
(***************************************************************************)
\* bits |-> <<r, d>> of the valid ways 0 .. n-1; way w holds the line of
\* tag w, with a first word of its own
L1SetWith(bits) ==
  [w \in Ways |->
     IF w < Len(bits)
     THEN [v |-> TRUE, r |-> bits[w + 1][1], d |-> bits[w + 1][2], tag |-> w,
           cache_line |-> [ZeroLine EXCEPT ![0] = (w % MaxWord) + 1]]
     ELSE L1ZeroEntry]

RDBits == BOOLEAN \X BOOLEAN

L1Sets ==
  UNION {{L1SetWith(bits) : bits \in [1 .. n -> RDBits]} : n \in 0 .. L1_LINES_PER_SET}

InitL1 ==
  /\ l1_cache \in {[s \in 0 .. (L1_NUM_CACHE_SETS - 1) |->
                      IF s = 0 THEN set ELSE [w \in Ways |-> L1ZeroEntry]] :
                   set \in L1Sets}
  /\ l2_cache = [i \in 0 .. (L2_NUM_CACHE_ENTRIES - 1) |-> L2ZeroEntry]
  /\ main_memory = main_memory_initialize(0)
  /\ main_memory_size_in_bytes = 0
  /\ num_l1_misses = 0
  /\ num_l2_misses = 0
  /\ read_data = 0
  /\ halted = FALSE
  /\ last = [op |-> "none"]
  /\ flat = [a \in {} |-> 0]
  /\ touched = {}
  /\ evicted = {}
  /\ steps = 0
  /\ twin = NoTwin

L1CacheAccess(address, write_data, control) ==
  /\ \E res \in {l1_cache_access(l1_cache, address, write_data, control, read_data)} :
       /\ l1_cache' = res.l1
       /\ read_data' = res.read_data
       /\ last' = [op |-> "l1_cache_access", address |-> address,
                   write_data |-> write_data, control |-> control,
                   hit |-> res.hit]
  /\ steps' = steps + 1
  /\ UNCHANGED twin
  /\ UNCHANGED <<l2_cache, main_memory, main_memory_size_in_bytes,
                 num_l1_misses, num_l2_misses, halted, flat, touched, evicted>>

L1InsertLine(address, write_data) ==
  /\ ~L1Hit(l1_cache, address)
  /\ \E res \in {l1_insert_line(l1_cache, address, write_data, 0, ZeroLine)} :
       /\ l1_cache' = res.l1
       /\ last' = [op |-> "l1_insert_line", address |-> address,
                   write_data |-> write_data,
                   before |-> l1_cache[L1SetIndex(address)],
                   status |-> res.status,
                   evicted_writeback_address |-> res.evicted_writeback_address,
                   evicted_writeback_data |-> res.evicted_writeback_data]
  /\ steps' = steps + 1
  /\ UNCHANGED twin
  /\ UNCHANGED <<l2_cache, main_memory, main_memory_size_in_bytes,
                 num_l1_misses, num_l2_misses, read_data, halted, flat,
                 touched, evicted>>

L1ClearRBits ==
  /\ l1_cache' = l1_clear_r_bits(l1_cache)
  /\ last' = [op |-> "l1_clear_r_bits"]
  /\ steps' = steps + 1
  /\ UNCHANGED twin
  /\ UNCHANGED <<l2_cache, main_memory, main_memory_size_in_bytes,
                 num_l1_misses, num_l2_misses, read_data, halted, flat,
                 touched, evicted>>

\* line addresses of tags 0 .. L1_LINES_PER_SET + 1 in sets 0 and 1
L1Addresses ==
  {t * Pow2(L1_ADDRESS_TAG_SHIFT) + i * Pow2(L1_SET_INDEX_SHIFT) :
     t \in 0 .. (L1_LINES_PER_SET + 1), i \in 0 .. 1}

MaxL1Steps == 2

NextL1 ==
  \/ \E a \in L1Addresses : steps < MaxL1Steps /\ L1CacheAccess(a, 0, READ_ENABLE_MASK)
  \/ \E a \in L1Addresses, w \in Words :
       steps < MaxL1Steps /\ L1CacheAccess(a, w, WRITE_ENABLE_MASK)
  \/ \E a \in L1Addresses, w \in Lines : steps < MaxL1Steps /\ L1InsertLine(a, w)
  \/ steps < MaxL1Steps /\ L1ClearRBits

SpecL1 == InitL1 /\ [][NextL1]_vars

(***************************************************************************)
(* The subsystem under a scripted workload that leaves two dirty lines in  *)
(* L2 (at the two L2 indexes the lines of L1 set 0 map to) and a dirty     *)
(* line in L1 as the only way not referenced since the last clock          *)
(* interrupt; after the script the run makes any access to a line of the   *)
(* set, with any control flags, or takes a clock interrupt.                *)
(***************************************************************************)
DeepScript ==
  <<<<"write", L1SetStride>>, <<"write", 0>>, <<"read", 2 * L1SetStride>>,
    <<"read", 4 * L1SetStride>>, <<"write", 3 * L1SetStride>>, <<"clock", 0>>,
    <<"read", 2 * L1SetStride>>, <<"read", 4 * L1SetStride>>,
    <<"read", L1SetStride>>, <<"read", 3 * L1SetStride>>, <<"read", 0>>,
    <<"clock", 0>>, <<"read", 0>>, <<"read", L1SetStride>>,
    <<"read", 2 * L1SetStride>>>>

\* operations in one run of this workload
MaxDeepSteps == 18

Scripted(kind) == steps \in 1 .. Len(DeepScript) /\ DeepScript[steps][1] = kind

Deep == steps > Len(DeepScript) /\ steps < MaxDeepSteps

NextDeep ==
  \/ steps = 0 /\ Initialize(HotSize)
  \/ Scripted("read") /\ Access(DeepScript[steps][2], 0, READ_ENABLE_MASK)
  \/ Scripted("write") /\ Access(DeepScript[steps][2], 1, WRITE_ENABLE_MASK)
  \/ Scripted("clock") /\ ClockInterrupt
  \/ \E a \in HotAddresses, c \in Controls : Deep /\ Access(a, MaxWord, c)
  \/ Deep /\ ClockInterrupt

SpecDeep == Init /\ [][NextDeep]_vars

(***************************************************************************)
(* The subsystem under a scripted workload that writes a word of a line,   *)
(* lets the line travel from L1 to L2 and from L2 to main memory, and      *)
(* pushes it out of L1 again, so that the next access to it fetches the    *)
(* written line from main memory and pushes a dirty line out of L1 whose   *)
(* L2 entry holds another line; after the script the run makes any access  *)
(* to a line of the set, with any control flags, or takes a clock          *)
(* interrupt.                                                              *)
(***************************************************************************)
RefetchScript ==
  <<<<"read", 2 * L1SetStride>>, <<"read", 4 * L1SetStride>>,
    <<"read", L1SetStride>>, <<"write", 0>>, <<"clock", 0>>,
    <<"read", 2 * L1SetStride>>, <<"read", 4 * L1SetStride>>,
    <<"read", L1SetStride>>, <<"read", 3 * L1SetStride>>, <<"clock", 0>>,
    <<"read", 0>>, <<"read", 2 * L1SetStride>>, <<"clock", 0>>,
    <<"read", 4 * L1SetStride>>, <<"write", L1SetStride>>, <<"clock", 0>>,
    <<"read", 4 * L1SetStride>>, <<"read", 2 * L1SetStride>>,
    <<"read", 3 * L1SetStride>>>>

\* operations in one run of this workload
MaxRefetchSteps == 22

Rescripted(kind) ==
  steps \in 1 .. Len(RefetchScript) /\ RefetchScript[steps][1] = kind

Refetch == steps > Len(RefetchScript) /\ steps < MaxRefetchSteps

NextRefetch ==
  \/ steps = 0 /\ Initialize(HotSize)
  \/ Rescripted("read") /\ Access(RefetchScript[steps][2], 0, READ_ENABLE_MASK)
  \/ Rescripted("write") /\ Access(RefetchScript[steps][2], 1, WRITE_ENABLE_MASK)
  \/ Rescripted("clock") /\ ClockInterrupt
  \/ \E a \in HotAddresses, c \in Controls : Refetch /\ Access(a, MaxWord, c)
  \/ Refetch /\ ClockInterrupt

SpecRefetch == Init /\ [][NextRefetch]_vars

(***************************************************************************)
(* The two caches side by side, each called directly with every value of   *)
(* the control flags, from the sets of InitL1.                             *)
(***************************************************************************)
MaxCacheSteps == 2

\* two tags of L1 set 0 that the initial ways hold, one they do not, and a
\* line of the other set
L1ProbeAddresses ==
  {0, Pow2(L1_ADDRESS_TAG_SHIFT), L1_LINES_PER_SET * Pow2(L1_ADDRESS_TAG_SHIFT),
   Pow2(L1_SET_INDEX_SHIFT)}

\* two tags of L2 index 0 and a line of index 1
L2ProbeAddresses ==
  {0, Pow2(L2_ADDRESS_TAG_SHIFT), Pow2(L2_INDEX_SHIFT)}

NextCaches ==
  \/ \E a \in L1ProbeAddresses, c \in Controls :
       \E w \in (IF TestBit(c, WRITE_ENABLE_MASK) THEN Words ELSE {0}) :
          steps < MaxCacheSteps /\ L1CacheAccess(a + BYTES_PER_WORD, w, c)
  \/ \E a \in L1ProbeAddresses, w \in Lines :
       steps < MaxCacheSteps /\ L1InsertLine(a, w)
  \/ steps < MaxCacheSteps /\ L1ClearRBits
  \/ \E a \in L2ProbeAddresses, c \in Controls :
       \E w \in (IF TestBit(c, WRITE_ENABLE_MASK) THEN Lines ELSE {ZeroLine}) :
          steps < MaxCacheSteps /\ L2CacheAccess(a, w, c)
  \/ \E a \in L2ProbeAddresses, w \in Lines :
       steps < MaxCacheSteps /\ L2InsertLine(a, w)

SpecCaches == InitL1 /\ [][NextCaches]_vars

(***************************************************************************)
(* Claims.                                                                 *)
(***************************************************************************)
\* the last operation was a memory_access that returned, with the read flag
ReadReturned ==
  /\ last.op = "memory_access"
  /\ ~last.fatal
  /\ TestBit(last.control, READ_ENABLE_MASK)

\* C1: a memory_access read of an address returns the word last written to
\* that address, whatever misses, evictions and clock interrupts lie between
\* the write and the read.
C1_RoundTrip ==
  (ReadReturned /\ last.was_written) => read_data = last.expected

\* C2: a memory_access read of an address whose line was evicted dirty from
\* L1 returns the word last written to that address, whether the write-back
\* of the line hit in L2 or missed.
C2_WriteBackPreserved ==
  (ReadReturned /\ last.was_written /\ last.was_evicted)
    => read_data = last.expected

\* the last operation was a memory_access that returned
AccessReturned ==
  /\ last.op = "memory_access"
  /\ ~last.fatal

\* C3: after memory_subsystem_initialize, the first access to a line, of an
\* in-range address, adds exactly one to num_l1_misses and exactly one to
\* num_l2_misses, whatever lines were accessed before it; an access to the
\* same address right after an access adds to neither counter.
C3_MissAccounting ==
  AccessReturned =>
    /\ last.first_touch =>
         /\ num_l1_misses = last.n1 + 1
         /\ num_l2_misses = last.n2 + 1
    /\ last.repeat =>
         /\ num_l1_misses = last.n1
         /\ num_l2_misses = last.n2

\* a first access to a line that found its L1 set full and pushed a dirty
\* line out
C3_Witness ==
  /\ AccessReturned
  /\ last.first_touch
  /\ last.info.needs_writeback
  /\ num_l1_misses = last.n1 + 1
  /\ num_l2_misses = last.n2 + 1

\* C4: after memory_subsystem_initialize with a size that is a multiple of
\* 32, made in any state, both miss counters are 0, and a memory_access read
\* of an address returns 0 as long as no word has been written to it.
C4_ReinitializationResets ==
  /\ (last.op = "initialize" /\ ~last.fatal) =>
       (num_l1_misses = 0 /\ num_l2_misses = 0)
  /\ (ReadReturned /\ ~last.was_written) => read_data = 0

\* the way of L1 that holds the line of address, valid, if any
L1WaysHolding(address) ==
  {w \in Ways : /\ l1_cache[L1SetIndex(address)][w].v
                /\ l1_cache[L1SetIndex(address)][w].tag = L1Tag(address)}

\* C5: every memory_access of an in-range address returns; when its first
\* l1_cache_access missed, the one made after memory_handle_l1_miss hit, so
\* that exactly one of the two performed the read or write; afterwards the
\* line is valid in L1 with its reference bit set, and a written word is in
\* the line, which is dirty.
C5_MissNeverSurfaced ==
  (last.op = "memory_access" /\ last.address < main_memory_size_in_bytes) =>
    /\ ~last.fatal
    /\ last.l1_hit # last.l1_retry_hit
    /\ \E w \in L1WaysHolding(last.address) :
         LET e == l1_cache[L1SetIndex(last.address)][w]
         IN  /\ e.r
             /\ TestBit(last.control, WRITE_ENABLE_MASK) =>
                  /\ e.d
                  /\ e.cache_line[WordOffset(last.address)] = last.write_data

\* a write that missed in L1 and in L2, pushed a dirty line out of L1, and
\* hit in L1 when it was made again
C5_Witness ==
  /\ AccessReturned
  /\ TestBit(last.control, WRITE_ENABLE_MASK)
  /\ ~last.l1_hit
  /\ last.l1_retry_hit
  /\ ~last.info.l2_read_hit
  /\ last.info.needs_writeback

\* C6: main_memory_access of an address at or past main_memory_size_in_bytes
\* ends the process and neither main memory nor read_data is changed; of an
\* address below the size it returns.
C6_BoundsCheck ==
  [][(last'.op = "main_memory_access" /\ steps' = steps + 1) =>
       IF last'.address >= main_memory_size_in_bytes
       THEN halted' /\ UNCHANGED <<main_memory, read_data>>
       ELSE ~halted']_vars

\* an access with both flags to the address that equals the size of a
\* memory with written lines has ended the process
C6_Witness ==
  /\ halted
  /\ last.op = "main_memory_access"
  /\ last.address = main_memory_size_in_bytes
  /\ last.control = READ_ENABLE_MASK + WRITE_ENABLE_MASK
  /\ \E w \in DOMAIN main_memory : main_memory[w] # 0

\* the state of the caches, of main memory and of the counters
Hierarchy ==
  <<l1_cache, l2_cache, main_memory, main_memory_size_in_bytes,
    num_l1_misses, num_l2_misses>>

\* C7: memory_subsystem_initialize ends the process exactly when the size
\* is no multiple of 32, and then no cache, memory or counter state is
\* changed; otherwise the size is recorded and main memory is size / 4
\* words, every one of them 0.
C7_ConfigurationError ==
  [][(last'.op = "initialize" /\ steps' = steps + 1) =>
       IF last'.size % 32 # 0
       THEN halted' /\ UNCHANGED Hierarchy
       ELSE /\ ~halted'
            /\ main_memory_size_in_bytes' = last'.size
            /\ DOMAIN main_memory' = 0 .. ((last'.size \div 4) - 1)
            /\ \A w \in DOMAIN main_memory' : main_memory'[w] = 0]_vars

\* the process ended by an initialization with a size that is no multiple
\* of 32, made when lines were cached and misses counted
C7_Witness ==
  /\ halted
  /\ last.op = "initialize"
  /\ last.size % 32 # 0
  /\ num_l1_misses > 0
  /\ main_memory_size_in_bytes > 0

\* the place of an entry in the order of preference of l1_insert_line:
\* (r, d) = (0, 0), (0, 1), (1, 0), (1, 1)
Preference(e) == (IF e.r THEN 2 ELSE 0) + (IF e.d THEN 1 ELSE 0)

\* the ways of a set no other way is preferred to
Preferred(set) ==
  {w \in Ways : \A x \in Ways : Preference(set[w]) <= Preference(set[x])}

\* C8: l1_insert_line into a set whose four ways are valid overwrites the
\* lowest-numbered of the ways that share the most preferred signature of
\* the set, and leaves the other ways as they were.
C8_NRUTieBreak ==
  (last.op = "l1_insert_line" /\ \A w \in Ways : last.before[w].v) =>
    LET set == l1_cache[L1SetIndex(last.address)]
        victim == Min(Preferred(last.before))
    IN  /\ set[victim].tag = L1Tag(last.address)
        /\ \A w \in Ways \ {victim} : set[w] = last.before[w]

\* an insertion into a full set where several ways shared the most preferred
\* signature and way 0 was not one of them
C8_Witness ==
  /\ last.op = "l1_insert_line"
  /\ \A w \in Ways : last.before[w].v
  /\ Cardinality(Preferred(last.before)) >= 2
  /\ Min(Preferred(last.before)) > 0
  /\ l1_cache[L1SetIndex(last.address)][Min(Preferred(last.before))].tag
       = L1Tag(last.address)

Visible(l1, l2, mem, address) ==
  IF L1Hit(l1, address)
  THEN l1[L1SetIndex(address)][Min(L1MatchingWays(l1, address))]
         .cache_line[WordOffset(address)]
  ELSE IF L2Hit(l2, address)
  THEN l2[L2Index(address)].cache_line[WordOffset(address)]
  ELSE mem[address \div BYTES_PER_WORD]

\* the word addresses of main memory
WordAddresses == {w * BYTES_PER_WORD : w \in DOMAIN main_memory}

\* C11: a memory_access with the read and the write flag returns the word
\* the hierarchy held for the address before the call and leaves it equal to
\* write_data, on an L1 hit and on a miss; a memory_access with neither flag
\* does not write read_data and changes the word held for no address.
C11_ReadBeforeWrite ==
  [][(steps' = steps + 1 /\ last'.op = "memory_access" /\ ~last'.fatal) =>
       /\ last'.control = READ_ENABLE_MASK + WRITE_ENABLE_MASK =>
            /\ read_data' =
                 Visible(l1_cache, l2_cache, main_memory, last'.address)
            /\ Visible(l1_cache', l2_cache', main_memory', last'.address)
                 = last'.write_data
       /\ last'.control = 0 =>
            /\ read_data' = read_data
            /\ \A a \in WordAddresses :
                 Visible(l1_cache', l2_cache', main_memory', a)
                   = Visible(l1_cache, l2_cache, main_memory, a)]_vars

\* the two-flag half of C11 alone
C11_BothFlags ==
  [][(steps' = steps + 1 /\ last'.op = "memory_access" /\ ~last'.fatal
        /\ last'.control = READ_ENABLE_MASK + WRITE_ENABLE_MASK) =>
       /\ read_data' = Visible(l1_cache, l2_cache, main_memory, last'.address)
       /\ Visible(l1_cache', l2_cache', main_memory', last'.address)
            = last'.write_data]_vars

\* C12: memory_handle_clock_interrupt leaves the reference bit of every L1
\* entry of every set cleared and changes nothing else: the valid bit, dirty
\* bit, tag and line of every L1 entry, L2, main memory and both counters
\* are as before.
C12_ClockInterruptFrame ==
  [][(steps' = steps + 1 /\ last'.op = "clock") =>
       /\ \A s \in DOMAIN l1_cache : \A w \in Ways :
            /\ ~l1_cache'[s][w].r
            /\ l1_cache'[s][w].v = l1_cache[s][w].v
            /\ l1_cache'[s][w].d = l1_cache[s][w].d
            /\ l1_cache'[s][w].tag = l1_cache[s][w].tag
            /\ l1_cache'[s][w].cache_line = l1_cache[s][w].cache_line
       /\ UNCHANGED <<l2_cache, main_memory, main_memory_size_in_bytes,
                      num_l1_misses, num_l2_misses>>]_vars

\* a clock interrupt taken when a full set of L1 held dirty lines
C12_Witness ==
  /\ last.op = "clock"
  /\ \E s \in DOMAIN l1_cache :
       /\ \A w \in Ways : l1_cache[s][w].v /\ ~l1_cache[s][w].r
       /\ \E w \in Ways : l1_cache[s][w].d
  /\ num_l2_misses > 0

\* C13: when l1_insert_line in memory_handle_l1_miss has handed out a line
\* for write-back, L2 holds on return a valid and dirty entry of the line's
\* address with the words evicted from L1, whether the first L2 write hit
\* or missed.
C13_WriteBackLandsInL2 ==
  (AccessReturned /\ last.info.needs_writeback) =>
    LET e == l2_cache[L2Index(last.info.evicted_writeback_address)]
    IN  /\ e.v
        /\ e.d
        /\ e.tag = L2Tag(last.info.evicted_writeback_address)
        /\ e.cache_line = last.info.evicted_writeback_data

\* C13 where the first L2 write of the evicted line hit
C13_WriteBackHit ==
  (AccessReturned /\ last.info.needs_writeback /\ last.info.wb_hit) =>
    LET e == l2_cache[L2Index(last.info.evicted_writeback_address)]
    IN  /\ e.v
        /\ e.d
        /\ e.tag = L2Tag(last.info.evicted_writeback_address)
        /\ e.cache_line = last.info.evicted_writeback_data

\* C14: in every state, every L1 entry and every L2 entry whose dirty bit
\* is set has its valid bit set.
C14_DirtyImpliesValid ==
  /\ \A s \in DOMAIN l1_cache : \A w \in Ways :
       l1_cache[s][w].d => l1_cache[s][w].v
  /\ \A i \in DOMAIN l2_cache : l2_cache[i].d => l2_cache[i].v

\* the L1 half of C14
C14_DirtyImpliesValidL1 ==
  \A s \in DOMAIN l1_cache : \A w \in Ways :
    l1_cache[s][w].d => l1_cache[s][w].v

\* the line address an L1 entry stands for: its tag over its set index
L1EntryAddress(s, w) ==
  l1_cache[s][w].tag * Pow2(L1_ADDRESS_TAG_SHIFT) + s * Pow2(L1_SET_INDEX_SHIFT)

\* C15: in every state no L1 set has two valid ways with the same tag, and
\* the tag and set of every valid entry give the address of a line that
\* memory_access was called for since the initialization and that belongs
\* to this set.
C15_L1EntriesDistinct ==
  \A s \in DOMAIN l1_cache : \A w \in Ways :
    l1_cache[s][w].v =>
      /\ \A x \in Ways \ {w} :
           l1_cache[s][x].v => l1_cache[s][x].tag # l1_cache[s][w].tag
      /\ L1EntryAddress(s, w) \in touched
      /\ L1SetIndex(L1EntryAddress(s, w)) = s
      /\ L1Tag(L1EntryAddress(s, w)) = l1_cache[s][w].tag

\* a full set after a line of it was pushed out and brought back
C15_Witness ==
  /\ AccessReturned
  /\ \A w \in Ways : l1_cache[L1SetIndex(last.address)][w].v
  /\ ~last.l1_hit
  /\ ~last.first_touch

\* the last operation was an l1_insert_line into a set with no invalid way
FullSetInsert == last.op = "l1_insert_line" /\ \A w \in Ways : last.before[w].v

\* the last operation was an l1_insert_line into a set with an invalid way
FreeWayInsert == last.op = "l1_insert_line" /\ \E w \in Ways : ~last.before[w].v

\* the way that holds the line of the last l1_insert_line
FilledWay ==
  CHOOSE w \in Ways :
    /\ l1_cache[L1SetIndex(last.address)][w].v
    /\ l1_cache[L1SetIndex(last.address)][w].tag = L1Tag(last.address)

\* C16 as stated: after l1_insert_line has filled a way of a full set, the
\* reference bit of that way is cleared.
C16_ReferenceBitCleared ==
  FullSetInsert => ~l1_cache[L1SetIndex(last.address)][FilledWay].r

\* C16 as amended: after l1_insert_line has filled a way of a full set, the
\* reference bit of that way is what it was before the call.
C16_ReferenceBitKept ==
  FullSetInsert =>
    l1_cache[L1SetIndex(last.address)][FilledWay].r = last.before[FilledWay].r

\* a victim of the (reference=1, dirty=0) category, its reference bit still set
C16_Witness ==
  /\ FullSetInsert
  /\ last.before[FilledWay].r
  /\ ~last.before[FilledWay].d
  /\ l1_cache[L1SetIndex(last.address)][FilledWay].r

\* C17: when the set has an invalid way, l1_insert_line fills the lowest
\* numbered invalid way, also when a lower valid way has reference and dirty
\* clear: that way ends valid with reference and dirty cleared and the new
\* tag and data, the status says no write-back, and the other ways of the
\* set are as they were.
C17_InvalidWayFilled ==
  FreeWayInsert =>
    LET set == l1_cache[L1SetIndex(last.address)]
        free == Min({w \in Ways : ~last.before[w].v})
    IN  /\ set[free].v /\ ~set[free].r /\ ~set[free].d
        /\ set[free].tag = L1Tag(last.address)
        /\ set[free].cache_line = last.write_data
        /\ ~last.status
        /\ \A w \in Ways \ {free} : set[w] = last.before[w]

\* such a fill into way 2 or 3 while a lower way is valid with reference and
\* dirty clear
C17_Witness ==
  /\ FreeWayInsert
  /\ FilledWay >= 2
  /\ \E w \in 0 .. (FilledWay - 1) :
       last.before[w].v /\ ~last.before[w].r /\ ~last.before[w].d
  /\ ~last.before[FilledWay].v

\* the ways of a set with the given reference and dirty bits
WaysWith(set, r, d) == {w \in Ways : set[w].r = r /\ set[w].d = d}

\* C18: l1_insert_line into a set whose four ways are valid overwrites a way
\* with reference and dirty clear if there is one, else a way with only
\* dirty set if there is one, else a way with only reference set if there
\* is one, else way 0; exactly one way of the set changes and every other
\* set is left as it was.
C18_VictimPriority ==
  [][(/\ steps' = steps + 1
      /\ last'.op = "l1_insert_line"
      /\ \A w \in Ways : l1_cache[L1SetIndex(last'.address)][w].v) =>
       LET s == L1SetIndex(last'.address)
           changed == {w \in Ways : l1_cache'[s][w] # l1_cache[s][w]}
       IN  /\ Cardinality(changed) = 1
           /\ \A w \in changed :
                /\ l1_cache'[s][w].tag = L1Tag(last'.address)
                /\ l1_cache'[s][w].cache_line = last'.write_data
                /\ IF WaysWith(l1_cache[s], FALSE, FALSE) # {}
                   THEN w \in WaysWith(l1_cache[s], FALSE, FALSE)
                   ELSE IF WaysWith(l1_cache[s], FALSE, TRUE) # {}
                   THEN w \in WaysWith(l1_cache[s], FALSE, TRUE)
                   ELSE IF WaysWith(l1_cache[s], TRUE, FALSE) # {}
                   THEN w \in WaysWith(l1_cache[s], TRUE, FALSE)
                   ELSE w = 0
           /\ \A o \in DOMAIN l1_cache \ {s} : l1_cache'[o] = l1_cache[o]]_vars

\* an insertion into a full set that overwrote a way with only the dirty bit
\* set and passed over a lower way with only the reference bit set, while
\* another set holds a line
C18_Witness ==
  /\ FullSetInsert
  /\ ~last.before[FilledWay].r /\ last.before[FilledWay].d
  /\ \E w \in 0 .. (FilledWay - 1) : last.before[w].r /\ ~last.before[w].d
  /\ \E o \in DOMAIN l1_cache \ {L1SetIndex(last.address)} :
       \E w \in Ways : l1_cache[o][w].v

\* the rank of an entry in the documented order of preference: valid bit 0,
\* then r=0 d=0, r=0 d=1, r=1 d=0, r=1 d=1
Tier(e) == IF ~e.v THEN 0 ELSE 1 + Preference(e)

\* the first way of the best ranked entries of a set
FiveTierVictim(set) ==
  Min({w \in Ways : \A x \in Ways : Tier(set[w]) <= Tier(set[x])})

\* C19: when l1_insert_line takes the branch that sets curr_entry to 0, way
\* 0 is valid with reference and dirty set; and for every state of the set
\* the way it overwrites is the first way of the best ranked entries in the
\* documented five-tier order.
C19_FallbackIsFifthTier ==
  last.op = "l1_insert_line" =>
    /\ FilledWay = FiveTierVictim(last.before)
    /\ (FullSetInsert /\ L1FallbackTaken(last.before)) =>
         last.before[0].v /\ last.before[0].r /\ last.before[0].d

\* an insertion that took the fallback branch and overwrote way 0
C19_Witness ==
  /\ FullSetInsert
  /\ L1FallbackTaken(last.before)
  /\ FilledWay = 0
  /\ last.status

\* C20: l1_insert_line reports that a write-back is needed exactly when the
\* way it overwrote was valid and dirty; the evicted address is then the
\* old tag shifted by L1_ADDRESS_TAG_SHIFT over the set index shifted by
\* L1_SET_INDEX_SHIFT, a line address that has the old tag and the set, and
\* the evicted data are the words the way held.
C20_WritebackReport ==
  last.op = "l1_insert_line" =>
    LET s == L1SetIndex(last.address)
        old == last.before[FilledWay]
    IN  /\ last.status <=> (old.v /\ old.d)
        /\ last.status =>
             /\ last.evicted_writeback_address
                  = old.tag * Pow2(L1_ADDRESS_TAG_SHIFT) + s * Pow2(L1_SET_INDEX_SHIFT)
             /\ last.evicted_writeback_address % CACHE_LINE_BYTES = 0
             /\ L1Tag(last.evicted_writeback_address) = old.tag
             /\ L1SetIndex(last.evicted_writeback_address) = s
             /\ last.evicted_writeback_data = old.cache_line

\* a write-back reported for a line of a tag other than 0 with a word set
C20_Witness ==
  /\ last.op = "l1_insert_line"
  /\ last.status
  /\ last.before[FilledWay].tag > 0
  /\ last.evicted_writeback_data # ZeroLine
  /\ last.evicted_writeback_data # last.write_data

\* C21: l2_insert_line reports that a write-back is needed exactly when
\* the entry at the index of the address was valid and dirty, and then hands
\* out the old tag shifted by L2_ADDRESS_TAG_SHIFT over the index shifted by
\* L2_INDEX_SHIFT and the old words; in every case the entry ends valid and
\* clean with the new tag and the data, an l2_cache_access read of the
\* address right after it hits and returns the data, and no other entry
\* changes.
C21_L2InsertLine ==
  [][(steps' = steps + 1 /\ last'.op = "l2_insert_line") =>
       LET i == L2Index(last'.address)
           old == l2_cache[i]
           after == l2_cache_access(l2_cache', last'.address, ZeroLine,
                                    READ_ENABLE_MASK, ZeroLine)
       IN  /\ last'.status <=> (old.v /\ old.d)
           /\ last'.status =>
                /\ last'.evicted_writeback_address
                     = old.tag * Pow2(L2_ADDRESS_TAG_SHIFT) + i * Pow2(L2_INDEX_SHIFT)
                /\ last'.evicted_writeback_data = old.cache_line
           /\ l2_cache'[i] = [v |-> TRUE, d |-> FALSE, tag |-> L2Tag(last'.address),
                              cache_line |-> last'.write_data]
           /\ after.hit /\ after.read_data = last'.write_data
           /\ \A o \in DOMAIN l2_cache \ {i} : l2_cache'[o] = l2_cache[o]]_vars

\* an insertion that pushed out a dirty line of a tag other than 0, while
\* another entry is valid
C21_Witness ==
  /\ last.op = "l2_insert_line"
  /\ last.status
  /\ last.evicted_writeback_address >= Pow2(L2_ADDRESS_TAG_SHIFT)
  /\ last.evicted_writeback_data # last.write_data
  /\ \E o \in DOMAIN l2_cache \ {L2Index(last.address)} : l2_cache[o].v

\* C22: an l1_cache_access that reports a miss changes no entry of L1 and
\* does not write read_data, and an l2_cache_access that reports a miss
\* changes no entry of L2 and does not write read_data, whatever the
\* control flags.
C22_MissNoEffect ==
  [][/\ (steps' = steps + 1 /\ last'.op = "l1_cache_access" /\ ~last'.hit) =>
          l1_cache' = l1_cache /\ read_data' = read_data
     /\ (steps' = steps + 1 /\ last'.op = "l2_cache_access" /\ ~last'.hit) =>
          l2_cache' = l2_cache /\ read_data' = read_data]_vars

\* an l2_cache_access with both flags that missed on a valid entry of
\* another tag
C22_Witness ==
  /\ last.op = "l2_cache_access"
  /\ ~last.hit
  /\ last.control = READ_ENABLE_MASK + WRITE_ENABLE_MASK
  /\ l2_cache[L2Index(last.address)].v
  /\ l2_cache[L2Index(last.address)].tag # L2Tag(last.address)

\* C23: across an l1_cache_access that hits, the matching way ends with its
\* reference bit set whatever the control flags, its dirty bit is the old
\* one or-ed with the write flag, its valid bit and tag are kept, only the
\* word at the word offset of the address can differ and it differs only
\* by becoming write_data under the write flag, and every other way and
\* set is as it was.
C23_HitEffect ==
  [][(steps' = steps + 1 /\ last'.op = "l1_cache_access" /\ last'.hit) =>
       LET s == L1SetIndex(last'.address)
           i == Min(L1MatchingWays(l1_cache, last'.address))
           off == (last'.address \div BYTES_PER_WORD) % WORDS_PER_CACHE_LINE
           old == l1_cache[s][i]
           new == l1_cache'[s][i]
           write == TestBit(last'.control, WRITE_ENABLE_MASK)
       IN  /\ new.r
           /\ new.d <=> (old.d \/ write)
           /\ new.v /\ new.tag = old.tag
           /\ \A j \in LineIndexes \ {off} : new.cache_line[j] = old.cache_line[j]
           /\ new.cache_line[off] = IF write THEN last'.write_data ELSE old.cache_line[off]
           /\ \A o \in DOMAIN l1_cache, w \in Ways :
                (o # s \/ w # i) => l1_cache'[o][w] = l1_cache[o][w]]_vars

\* a hit with neither flag on a dirty way, which ends referenced and dirty
C23_Witness ==
  /\ last.op = "l1_cache_access"
  /\ last.hit
  /\ last.control = 0
  /\ \E w \in Ways :
       LET e == l1_cache[L1SetIndex(last.address)][w]
       IN  e.v /\ e.tag = L1Tag(last.address) /\ e.r /\ e.d

\* the words main memory holds for the line at a line address
MemoryLine(mem, address) ==
  [j \in LineIndexes |-> mem[(address \div BYTES_PER_WORD) + j]]

\* C24: across a memory_access that returns or a clock interrupt, no valid
\* entry of L1 or L2 becomes invalid; a valid dirty entry of L1 is clean
\* afterwards only if it holds another tag and l1_insert_line reported a
\* write-back with the entry's address and words; a valid dirty entry of L2
\* is clean afterwards only if it holds another tag and main memory has
\* been written and holds the entry's words at the entry's address.
C24_EntryStateMachine ==
  [][(/\ steps' = steps + 1
      /\ \/ last'.op = "clock"
         \/ last'.op = "memory_access" /\ ~last'.fatal) =>
       /\ \A s \in DOMAIN l1_cache : \A w \in Ways :
            LET old == l1_cache[s][w]
                new == l1_cache'[s][w]
            IN  /\ old.v => new.v
                /\ (old.v /\ old.d /\ ~new.d) =>
                     /\ last'.op = "memory_access"
                     /\ new.tag # old.tag
                     /\ last'.info.needs_writeback
                     /\ last'.info.evicted_writeback_address
                          = old.tag * Pow2(L1_ADDRESS_TAG_SHIFT)
                              + s * Pow2(L1_SET_INDEX_SHIFT)
                     /\ last'.info.evicted_writeback_data = old.cache_line
       /\ \A i \in DOMAIN l2_cache :
            LET old == l2_cache[i]
                new == l2_cache'[i]
            IN  /\ old.v => new.v
                /\ (old.v /\ old.d /\ ~new.d) =>
                     /\ last'.op = "memory_access"
                     /\ new.tag # old.tag
                     /\ last'.info.mm_writes >= 1
                     /\ MemoryLine(main_memory',
                                   old.tag * Pow2(L2_ADDRESS_TAG_SHIFT)
                                     + i * Pow2(L2_INDEX_SHIFT)) = old.cache_line]_vars

\* a memory_access, after one in which l1_insert_line pushed out a dirty
\* line, in which l2_insert_line pushed a dirty line out to main memory for
\* the line that was fetched, which L2 holds clean afterwards
C24_Witness ==
  /\ AccessReturned
  /\ evicted # {}
  /\ ~last.l1_hit
  /\ ~last.info.l2_read_hit
  /\ last.info.mm_writes >= 1
  /\ L2Hit(l2_cache, last.address)
  /\ ~l2_cache[L2Index(last.address)].d

\* C25: every memory_access of an address below the memory size returns,
\* and within one memory_access memory_handle_l2_miss runs at most twice,
\* main memory is read at most one line and written at most two lines.
C25_BoundedMissHandling ==
  last.op = "memory_access" =>
    /\ last.address < main_memory_size_in_bytes => ~last.fatal
    /\ last.info.handler_calls <= 2
    /\ last.info.mm_reads <= 1
    /\ last.info.mm_writes <= 2

\* a memory_access in which the read and the write-back both missed in L2
\* and each l2_insert_line pushed a dirty line out to main memory
C25_Witness ==
  /\ AccessReturned
  /\ last.info.handler_calls = 2
  /\ last.info.mm_reads = 1
  /\ last.info.mm_writes = 2

\* C26: in a memory_access that missed in L1, an L2 read that missed hits
\* when it is made again after memory_handle_l2_miss and returns the line
\* main memory held for the address, and a write of the evicted line that
\* missed in L2 hits when it is made again after memory_handle_l2_miss.
C26_RetriesHit ==
  [][(/\ steps' = steps + 1
      /\ last'.op = "memory_access"
      /\ ~last'.fatal
      /\ ~last'.l1_hit) =>
       /\ ~last'.info.l2_read_hit =>
            /\ last'.info.l2_read_retry_hit
            /\ last'.info.fetched
                 = MemoryLine(main_memory, CacheLineAddress(last'.address))
       /\ (last'.info.needs_writeback /\ ~last'.info.wb_hit) =>
            last'.info.wb_retry_hit]_vars

\* a memory_access whose L2 read and L2 write-back both missed and hit when
\* made again, the read returning a line that main memory had been written
C26_Witness ==
  /\ AccessReturned
  /\ ~last.l1_hit
  /\ ~last.info.l2_read_hit /\ last.info.l2_read_retry_hit
  /\ last.info.fetched # ZeroLine
  /\ last.info.needs_writeback
  /\ ~last.info.wb_hit /\ last.info.wb_retry_hit

\* C27: whenever the subsystem is between two calls, every word address of
\* main memory has, in the highest level that holds its line valid, the
\* value last written to it by memory_access since the initialization, or
\* 0 when it was not written.
C27_RefinesFlatMemory ==
  ~halted =>
    \A a \in WordAddresses :
      Visible(l1_cache, l2_cache, main_memory, a)
        = IF a \in DOMAIN flat THEN flat[a] ELSE 0

\* the word that only an uninitialized local array can hold: no
\* memory_access writes it
ScratchWord == MaxWord + 1

\* C28: when memory_access has returned, the content of the uninitialized
\* array that memory_handle_l2_miss inserted into L2 for a miss caused by a
\* write is in no entry of L1, in no valid entry of L2 and in no line of
\* main memory, and read_data does not hold it.
C28_ScratchNeverObservable ==
  ~halted =>
    /\ \A s \in DOMAIN l1_cache : \A w \in Ways : \A j \in LineIndexes :
         l1_cache[s][w].cache_line[j] # ScratchWord
    /\ \A i \in DOMAIN l2_cache : \A j \in LineIndexes :
         l2_cache[i].v => l2_cache[i].cache_line[j] # ScratchWord
    /\ \A m \in DOMAIN main_memory : main_memory[m] # ScratchWord
    /\ read_data # ScratchWord

\* a memory_access whose write-back missed in L2, so that the array was
\* inserted, and that read a word
C28_Witness ==
  /\ AccessReturned
  /\ last.info.needs_writeback
  /\ ~last.info.wb_hit
  /\ last.info.handler_calls >= 1
  /\ TestBit(last.control, READ_ENABLE_MASK)

\* C29: across a memory_access whose first l1_cache_access hits, every L2
\* entry, every word of main memory and both miss counters are unchanged,
\* and no way of L1 other than the way that holds the line changes.
C29_L1HitFrame ==
  [][(steps' = steps + 1 /\ last'.op = "memory_access" /\ last'.l1_hit) =>
       /\ l2_cache' = l2_cache
       /\ main_memory' = main_memory
       /\ main_memory_size_in_bytes' = main_memory_size_in_bytes
       /\ num_l1_misses' = num_l1_misses
       /\ num_l2_misses' = num_l2_misses
       /\ \A s \in DOMAIN l1_cache : \A w \in Ways :
            l1_cache'[s][w] # l1_cache[s][w] =>
              /\ s = L1SetIndex(last'.address)
              /\ w = Min(L1MatchingWays(l1_cache, last'.address))]_vars

\* a write that hit in L1 while L2 holds a dirty line and misses have been
\* counted
C29_Witness ==
  /\ AccessReturned
  /\ last.l1_hit
  /\ TestBit(last.control, WRITE_ENABLE_MASK)
  /\ num_l2_misses > 0
  /\ \E i \in DOMAIN l2_cache : l2_cache[i].v /\ l2_cache[i].d

\* C30: an access ends in the fatal out-of-range error exactly when its
\* address is at or beyond the configured memory size (so no out-of-range
\* address is served from a cache, and no write-back of an in-range access
\* leaves the range), and every valid L1 or L2 entry represents a line that
\* lies below main_memory_size_in_bytes, also after a re-initialization with
\* a smaller size
L2EntryAddress(i) ==
  l2_cache[i].tag * Pow2(L2_ADDRESS_TAG_SHIFT) + i * Pow2(L2_INDEX_SHIFT)

C30_OutOfRangeIsFatal ==
  /\ last.op = "memory_access" =>
       (last.fatal <=> last.address >= main_memory_size_in_bytes)
  /\ ~halted =>
       /\ \A s \in DOMAIN l1_cache : \A w \in Ways :
            l1_cache[s][w].v => L1EntryAddress(s, w) < main_memory_size_in_bytes
       /\ \A i \in DOMAIN l2_cache :
            l2_cache[i].v => L2EntryAddress(i) < main_memory_size_in_bytes

\* an access of a line that was cached under the larger size ends in the
\* fatal error after a re-initialization with a smaller size, while L2 still
\* holds the stale tag of that line in an invalid entry
C30_Witness ==
  /\ last.op = "memory_access"
  /\ last.fatal
  /\ main_memory_size_in_bytes < HotSize
  /\ last.address \in {ShrinkWrites[k] : k \in DOMAIN ShrinkWrites}
  /\ \E i \in DOMAIN l2_cache :
       /\ ~l2_cache[i].v
       /\ L2EntryAddress(i) = last.address

C32_WriteMissNotCounted ==
  (last.op = "memory_access" /\ ~last.fatal) =>
    /\ num_l1_misses = last.n1 + (IF last.l1_hit THEN 0 ELSE 1)
    /\ num_l2_misses = last.n2 +
         (IF ~last.l1_hit /\ ~last.info.l2_read_hit THEN 1 ELSE 0)
    /\ num_l2_misses <= last.n2 + 1

\* an access in which both the L2 read and the L2 write of the evicted
\* line missed
C32_Witness ==
  /\ AccessReturned
  /\ ~last.l1_hit
  /\ ~last.info.l2_read_hit
  /\ last.info.needs_writeback
  /\ ~last.info.wb_hit
  /\ last.info.handler_calls = 2
  /\ num_l2_misses = last.n2 + 1

\* an access in which the L2 read hit and the L2 write of the evicted line
\* missed: num_l2_misses is unchanged
C32_WriteMissOnly ==
  /\ AccessReturned
  /\ ~last.l1_hit
  /\ last.info.l2_read_hit
  /\ last.info.needs_writeback
  /\ ~last.info.wb_hit
  /\ num_l2_misses = last.n2

\* C33: a read returns the same word in the run with clock interrupts and
\* in the run of the same accesses without them
C33_ClockNeverChangesData ==
  (/\ twin.on
   /\ last.op = "memory_access"
   /\ ~last.fatal
   /\ TestBit(last.control, READ_ENABLE_MASK)) =>
    /\ ~twin.fatal
    /\ read_data = twin.read_data

====
